---------------------------- MODULE Spec2Model ----------------------------
(***************************************************************************)
(* A model of the clinic queue optimizer of health-clinic-optimization:    *)
(* the wait-time estimator (services/estimate_time_left.py), the queue     *)
(* optimizer (services/manipulate_queue.py), the deque-backed queue        *)
(* (external_systems/priority_queue_leo.py) and the discrete-event day     *)
(* simulation (services/clinic_queue_simulation.py).                       *)
(*                                                                         *)
(* Times are whole minutes.  A Customer is a record                        *)
(*   [customer_id, arrival_time, ticket_type, jumps]                       *)
(* and the queue is the sequence of the deque's customers, head first.     *)
(* The service-time repository is the sequence of the rows of its          *)
(* DataFrame, each [ticket_type, service_time].                            *)
(***************************************************************************)
EXTENDS Integers, Sequences, FiniteSets, TLC

VARIABLES
    queue,      \* PriorityQueueLeo.queue: the customers waiting, head first
    repo,       \* DataFrameRepo.data: rows [ticket_type, service_time]
    clock,      \* the current time (minutes)
    nextId,     \* the customer_id the next created Customer gets
    est,        \* the last call of estimate_total_times_in_line and its outcome
    call,       \* the call of update_queue_improved in progress, or the last one
    move,       \* the last pass of update_queue_improved and the move it made
    dequeued,   \* what the calls of dequeue under test returned, in order
    pc,                     \* where simulate_day stands
    num_service_windows,    \* ClinicQueueSimulator.num_service_windows
    pending_arrivals,       \* ClinicQueueSimulator.pending_arrivals
    service_windows,        \* ClinicQueueSimulator.service_windows
    simulation_state,       \* ClinicQueueSimulator.simulation_state
    last_optimization_time  \* simulate_day's local of that name

queueVars == <<queue, repo, clock, nextId>>
optVars == <<est, call, move>>
simVars == <<pc, num_service_windows, pending_arrivals, service_windows,
             simulation_state, last_optimization_time>>
vars == <<queue, repo, clock, nextId, est, call, move, dequeued, pc,
          num_service_windows, pending_arrivals, service_windows,
          simulation_state, last_optimization_time>>

---------------------------------------------------------------------------
(* Bounds of the model.                                                    *)

MaxEstLen == 5
MaxEstWindows == 3
MaxCustomers == 3
MaxArrivals == 3
MaxForcedSkips == 3
MaxCeiling == 3
MaxLookupLen == 3
MaxFifoEnqueues == 4
MaxFifoDequeues == 5
MaxRepositionLen == 3
MaxPasses == 6

---------------------------------------------------------------------------
(* Sequences.                                                              *)

SeqsUpTo(S, n) == UNION {[1..k -> S] : k \in 0..n}

Reverse(s) == [i \in 1..Len(s) |-> s[Len(s) + 1 - i]]

RECURSIVE SumSeq(_)
SumSeq(s) == IF s = <<>> THEN 0 ELSE Head(s) + SumSeq(Tail(s))

\* min(xs) of Python: the least element of a non-empty list.
ListMin(xs) == CHOOSE x \in {xs[i] : i \in 1..Len(xs)} :
                   \A j \in 1..Len(xs) : x <= xs[j]

\* xs.index(v) of Python: the first position holding v.
ListIndex(xs, v) == CHOOSE i \in 1..Len(xs) :
                        xs[i] = v /\ \A j \in 1..(i - 1) : xs[j] # v

---------------------------------------------------------------------------
(* Customer (entities/customer.py).                                        *)

Customer(customer_id, arrival_time, ticket_type) ==
    [customer_id |-> customer_id, arrival_time |-> arrival_time,
     ticket_type |-> ticket_type, jumps |-> 0]

update_jumps(c) == [c EXCEPT !.jumps = c.jumps + 1]

---------------------------------------------------------------------------
(* DataFrameRepo.get_data and get_estimated_service_time.                  *)

Row(ticket_type, service_time) ==
    [ticket_type |-> ticket_type, service_time |-> service_time]

\* A variant that answers an absent ticket type with a row of its own.
get_data_DefaultRow(rp, ticket_type) ==
    IF SelectSeq(rp, LAMBDA row : row.ticket_type = ticket_type) = <<>>
    THEN << [ticket_type |-> ticket_type, service_time |-> 0] >>
    ELSE SelectSeq(rp, LAMBDA row : row.ticket_type = ticket_type)

\* df[df["ticket_type"] == selected_ticket_type]
get_data(rp, ticket_type) ==
    SelectSeq(rp, LAMBDA row : row.ticket_type = ticket_type)

\* .iloc[0] raises IndexError on a frame with no row.
LookupFails(rp, ticket_type) == get_data(rp, ticket_type) = <<>>

\* .iloc[0]["service_time"]: the first matching row's service time.
get_estimated_service_time(rp, c) == get_data(rp, c.ticket_type)[1].service_time

---------------------------------------------------------------------------
(* estimate_total_times_in_line (services/estimate_time_left.py).          *)

\* A variant that never leaves the list of windows empty.
InitialWindowAvailability_AtLeastOne(service_points) ==
    [w \in 1..(IF service_points < 1 THEN 1 ELSE service_points) |-> 0]

\* [0.0] * service_points: the empty list when service_points <= 0.
InitialWindowAvailability(service_points) ==
    [w \in 1..service_points |-> 0]

\* A variant that projects every customer onto the first window.
EarliestAvailableTime_FirstWindow(window_availability_times) ==
    window_availability_times[1]

\* The window the next customer is projected onto: the one that frees first.
EarliestAvailableTime(window_availability_times) ==
    ListMin(window_availability_times)

\* A variant with the operands of the subtraction exchanged.
TimeAlreadyWaited_Swapped(c, current_time) == c.arrival_time - current_time

\* (current_time - customer.arrival_time).total_seconds() / 60.0
TimeAlreadyWaited(c, current_time) == current_time - c.arrival_time

\* The loop body for the customers q[i..], with the windows' availability
\* times as the iterations before left them.  The result is an outcome:
\* kind "ok" with the (customer, total time) pairs, or the exception that
\* left the function.
RECURSIVE EstimateLoop(_, _, _, _, _)
EstimateLoop(q, i, window_availability_times, rp, current_time) ==
    IF i > Len(q) THEN [kind |-> "ok", value |-> <<>>]
    ELSE IF LookupFails(rp, q[i].ticket_type)
    THEN [kind |-> "IndexError", value |-> <<>>]
    ELSE IF window_availability_times = <<>>
    THEN [kind |-> "ValueError", value |-> <<>>]
    ELSE
      LET customer == q[i]
          service_time == get_estimated_service_time(rp, customer)
          earliest_available_time ==
              EarliestAvailableTime(window_availability_times)
          earliest_window_index ==
              ListIndex(window_availability_times, earliest_available_time)
          total_estimated_time ==
              TimeAlreadyWaited(customer, current_time) + earliest_available_time
          \* the remaining iterations, the windows' new times computed once
          rest == CHOOSE r \in
                      { EstimateLoop(q, i + 1, w, rp, current_time) :
                          w \in {[window_availability_times EXCEPT
                                     ![earliest_window_index] =
                                         earliest_available_time + service_time]} } :
                      TRUE
      IN IF rest.kind = "ok"
         THEN [kind |-> "ok",
               value |-> <<<<customer, total_estimated_time>>>> \o rest.value]
         ELSE rest

\* A variant that validates service_points before anything else.
estimate_total_times_in_line_Checked(service_points, q, rp, current_time) ==
    IF service_points <= 0 THEN [kind |-> "ValueError", value |-> <<>>]
    ELSE EstimateLoop(q, 1, InitialWindowAvailability(service_points), rp,
                      current_time)

estimate_total_times_in_line(service_points, q, rp, current_time) ==
    EstimateLoop(q, 1, InitialWindowAvailability(service_points), rp,
                 current_time)

NoOutcome == [kind |-> "none", value |-> <<>>]

---------------------------------------------------------------------------
(* PriorityQueueLeo (external_systems/priority_queue_leo.py).              *)

\* A variant that adds the customer at the front (appendleft).
enqueue_AtFront(q, customer) == <<customer>> \o q

\* deque.append(customer)
enqueue(q, customer) == Append(q, customer)

\* A variant that returns the head without removing it.
dequeue_KeepsHead(q) == q

\* deque.popleft(), or None (the queue as it is) when the deque is empty.
dequeue(q) == IF q = <<>> THEN q ELSE Tail(q)

\* What dequeue returns: the head, or None when the deque is empty.
dequeue_returns(q) == IF q = <<>> THEN <<>> ELSE <<Head(q)>>

\* The position (1-based) of the first customer equal to c: Customer.__eq__
\* compares customer_id.
PositionOf(q, c) ==
    CHOOSE i \in 1..Len(q) :
        /\ q[i].customer_id = c.customer_id
        /\ \A j \in 1..(i - 1) : q[j].customer_id # c.customer_id

\* A variant of deque.remove that removes nothing.
RemoveAt_Nothing(q, i) == q

RemoveAt(q, i) == SubSeq(q, 1, i - 1) \o SubSeq(q, i + 1, Len(q))

\* deque.insert(i, x): before 0-based index i, at the end when i is past
\* the end; a negative i counts from the end and stops at the front.
InsertAt(q, i, x) ==
    LET k == IF i > Len(q) THEN Len(q)
             ELSE IF i >= 0 THEN i
             ELSE IF Len(q) + i < 0 THEN 0
             ELSE Len(q) + i
    IN SubSeq(q, 1, k) \o <<x>> \o SubSeq(q, k + 1, Len(q))

\* A variant that exchanges the customer with the one at new_position.
update_priority_Swap(q, customer, new_position) ==
    LET i == CHOOSE k \in 1..Len(q) : q[k].customer_id = customer.customer_id
        j == IF new_position + 1 \in 1..Len(q) THEN new_position + 1 ELSE i
    IN [q EXCEPT ![i] = q[j], ![j] = q[i]]

\* self.queue.remove(customer); self.queue.insert(new_position, customer).
\* The customer inserted is the caller's object, the one of the queue.
update_priority(q, customer, new_position) ==
    LET i == PositionOf(q, customer)
    IN InsertAt(RemoveAt(q, i), new_position, q[i])

---------------------------------------------------------------------------
(* calculate_customer_new_position (services/manipulate_queue.py).         *)
(* The arguments of update_queue_improved travel as one record a:          *)
(*   [service_points, priority_tickets, p_threshold, non_p_threshold,      *)
(*    current_time, max_jumps_p, jumps_limit].                             *)

\* customer.ticket_type in priority_tickets
IsPriority(c, priority_tickets) == c.ticket_type \in priority_tickets

\* A variant of the walk that does not stop at a priority customer.
StopsAtPriority_Never(customer_to_skip, priority_tickets) == FALSE

\* if customer_to_skip.ticket_type in priority_tickets: break
StopsAtPriority(customer_to_skip, priority_tickets) ==
    IsPriority(customer_to_skip, priority_tickets)

\* A variant that lets a customer at the limit be skipped once more.
JumpsLimitReached_OffByOne(c, jumps_limit) == c.jumps > jumps_limit

\* customer_to_skip.jumps >= jumps_limit
JumpsLimitReached(c, jumps_limit) == c.jumps >= jumps_limit

\* A variant that forgets the moving customer's service time.
NewEstimatedWaitingTimeNonP_Unchanged(original_wait_time, customer, rp) ==
    original_wait_time

\* original_wait_time_for_customer_to_skip
\*     + get_estimated_service_time(customer, service_times_repo)
NewEstimatedWaitingTimeNonP(original_wait_time, customer, rp) ==
    original_wait_time + get_estimated_service_time(rp, customer)

\* A variant that refuses a skip that takes the new wait to the threshold.
WithinNonPThreshold_Strict(new_wait, non_p_threshold) ==
    new_wait < non_p_threshold

\* new_estimated_waiting_time_non_p <= non_p_threshold
WithinNonPThreshold(new_wait, non_p_threshold) == new_wait <= non_p_threshold

\* A variant that has no special jump at all.
SpecialJumpAvailable_Never(p_jumps_used_this_call, max_jumps_p) == FALSE

\* A variant that never runs out of special jumps.
SpecialJumpAvailable_Always(p_jumps_used_this_call, max_jumps_p) == TRUE

\* p_jumps_used_this_call < max_jumps_p
SpecialJumpAvailable(p_jumps_used_this_call, max_jumps_p) ==
    p_jumps_used_this_call < max_jumps_p

\* A variant of the walk that never stops early.
BelowPThreshold_Never(new_estimated_waiting_time_p, p_threshold) == FALSE

\* new_estimated_waiting_time_p < p_threshold
BelowPThreshold(new_estimated_waiting_time_p, p_threshold) ==
    new_estimated_waiting_time_p < p_threshold

\* The state of the walk before its first iteration.  skips lists the
\* customers skipped so far, nearest first, each with its wait at pass
\* start, its new wait, whether the skip used the special-jump budget, and
\* the moving customer's running wait after the skip.
WalkStart(queue_n_times) ==
    [new_pos |-> 0,
     new_estimated_waiting_time_p |-> queue_n_times[1][2],
     p_jumps_used_this_call |-> 0,
     skips |-> <<>>]

\* The iterations ix, ix+1, ... of `for ix in range(len(queue_n_times))`
\* (ix is the 0-based index of Python; ix = 0 is the customer itself).
RECURSIVE Walk(_, _, _, _, _, _)
Walk(queue_n_times, ix, st, customer, rp, a) ==
    IF ix >= Len(queue_n_times) THEN st
    ELSE
      LET customer_to_skip == queue_n_times[ix + 1][1]
          original_wait_time == queue_n_times[ix + 1][2]
      IN
      IF StopsAtPriority(customer_to_skip, a.priority_tickets) THEN st
      ELSE IF JumpsLimitReached(customer_to_skip, a.jumps_limit) THEN st
      ELSE
        LET new_estimated_waiting_time_non_p ==
                NewEstimatedWaitingTimeNonP(original_wait_time, customer, rp)
            within == WithinNonPThreshold(new_estimated_waiting_time_non_p,
                                          a.non_p_threshold)
            made_a_special_jump ==
                /\ ~within
                /\ SpecialJumpAvailable(st.p_jumps_used_this_call, a.max_jumps_p)
        IN
        IF ~within /\ ~made_a_special_jump THEN st
        ELSE
          LET new_wait_p == st.new_estimated_waiting_time_p
                              - get_estimated_service_time(rp, customer_to_skip)
              st2 == [new_pos |-> ix,
                      new_estimated_waiting_time_p |-> new_wait_p,
                      p_jumps_used_this_call |->
                          st.p_jumps_used_this_call
                              + (IF made_a_special_jump THEN 1 ELSE 0),
                      skips |-> Append(st.skips,
                          [customer_id |-> customer_to_skip.customer_id,
                           original_wait |-> original_wait_time,
                           new_wait |-> new_estimated_waiting_time_non_p,
                           special |-> made_a_special_jump,
                           wait_p_after |-> new_wait_p])]
          IN IF BelowPThreshold(new_wait_p, a.p_threshold) THEN st2
             \* the next iteration, from the walk's state computed once
             ELSE CHOOSE r \in
                      { Walk(queue_n_times, ix + 1, s, customer, rp, a) :
                          s \in {st2} } : TRUE

WalkOf(queue_n_times, customer, rp, a) ==
    Walk(queue_n_times, 1, WalkStart(queue_n_times), customer, rp, a)

calculate_customer_new_position(queue_n_times, customer, rp, a) ==
    WalkOf(queue_n_times, customer, rp, a).new_pos

---------------------------------------------------------------------------
(* update_queue_improved (services/manipulate_queue.py): one pass of the   *)
(* stabilization loop.                                                     *)

\* A variant that evaluates every customer of the snapshot, whatever its
\* ticket type.
IsEvaluated_AnyTicket(current_customer, customer_estimated_wait, a) == TRUE

\* The commented-out guard of line 226: every priority customer of the
\* snapshot is evaluated, whatever its estimated wait.
IsEvaluated(current_customer, customer_estimated_wait, a) ==
    IsPriority(current_customer, a.priority_tickets)

\* new_target_index = current_actual_idx - num_positions_to_skip, floored at 0
NewTargetIndex(current_actual_idx, num_positions_to_skip) ==
    IF current_actual_idx - num_positions_to_skip < 0 THEN 0
    ELSE current_actual_idx - num_positions_to_skip

\* A variant that counts a skip for every customer ahead of the moving one.
SkippedIndices_AllAhead(new_target_index, num_positions_to_skip, current_actual_idx) ==
    0..(current_actual_idx - 1)

\* The 0-based indices whose customers get update_jumps():
\* new_target_index + i for i in range(num_positions_to_skip), below the
\* moving customer's index.
SkippedIndices(new_target_index, num_positions_to_skip, current_actual_idx) ==
    {j \in {new_target_index + i : i \in 0..(num_positions_to_skip - 1)} :
        j < current_actual_idx}

\* customers_before_move with update_jumps() applied to the skipped
\* non-priority customers.
WithJumpsUpdated(q, indices, priority_tickets) ==
    [j \in 1..Len(q) |->
        IF (j - 1) \in indices /\ ~IsPriority(q[j], priority_tickets)
        THEN update_jumps(q[j]) ELSE q[j]]

NoPassMove(q) ==
    [moved |-> FALSE, customer_id |-> 0, from |-> 0, to |-> 0, wait |-> 0,
     skips |-> <<>>, queue |-> q]

\* `for customer_info in customers_at_pass_start` from the 0-based index
\* original_est_idx on: the first evaluated customer with a move is moved
\* and the scan ends (break).
RECURSIVE Scan(_, _, _, _, _)
Scan(q, estimated_waiting_times, original_est_idx, rp, a) ==
    IF original_est_idx >= Len(q) THEN NoPassMove(q)
    ELSE
      LET current_customer == q[original_est_idx + 1]
          current_actual_idx == original_est_idx
          customer_estimated_wait ==
              estimated_waiting_times[original_est_idx + 1][2]
      IN
      IF ~IsEvaluated(current_customer, customer_estimated_wait, a)
      THEN Scan(q, estimated_waiting_times, original_est_idx + 1, rp, a)
      ELSE
        LET relevant_times_slice ==
                Reverse(SubSeq(estimated_waiting_times, 1, original_est_idx + 1))
            \* one call of calculate_customer_new_position on the slice
            walk == CHOOSE r \in
                      { WalkOf(slice, current_customer, rp, a) :
                          slice \in {relevant_times_slice} } : TRUE
            num_positions_to_skip == walk.new_pos
            new_target_index ==
                NewTargetIndex(current_actual_idx, num_positions_to_skip)
        IN
        IF num_positions_to_skip > 0 /\ new_target_index # current_actual_idx
        THEN [moved |-> TRUE,
              customer_id |-> current_customer.customer_id,
              from |-> current_actual_idx,
              to |-> new_target_index,
              wait |-> customer_estimated_wait,
              skips |-> walk.skips,
              queue |-> update_priority(
                  WithJumpsUpdated(q,
                      SkippedIndices(new_target_index, num_positions_to_skip,
                                     current_actual_idx),
                      a.priority_tickets),
                  current_customer, new_target_index)]
        ELSE Scan(q, estimated_waiting_times, original_est_idx + 1, rp, a)

\* A variant that computes the estimates once per call, on the queue as it
\* was when the call was entered, and uses them in every pass.
Pass_EstimatesOfCallStart(q, rp, a) ==
    CHOOSE p \in
        { [raised |-> FALSE, result |-> Scan(q, e.value, 0, rp, a)] :
            e \in {estimate_total_times_in_line(a.service_points, call.pre, rp,
                                                a.current_time)} } : TRUE

\* One iteration of `while True`: the estimates, the snapshot, the scan.
\* raised: the estimator's exception leaves update_queue_improved.
\* The estimates are computed once, before the scan (line 186).
Pass(q, rp, a) ==
    CHOOSE p \in
        { IF e.kind # "ok"
          THEN [raised |-> TRUE, result |-> NoPassMove(q)]
          ELSE [raised |-> FALSE, result |-> Scan(q, e.value, 0, rp, a)] :
            e \in {estimate_total_times_in_line(a.service_points, q, rp,
                                                a.current_time)} } : TRUE

\* A variant of the loop's exit test that ends the call after one pass.
LoopEnds_AfterOnePass(made_change_in_pass) == TRUE

\* if not made_change_in_pass: break
LoopEnds(made_change_in_pass) == ~made_change_in_pass

---------------------------------------------------------------------------
(* ServiceWindow (entities/service_window.py).  An Optional value is a     *)
(* sequence: <<>> for None, <<v>> for the value v.                         *)

ServiceWindow(window_id) ==
    [window_id |-> window_id, is_available |-> TRUE,
     current_customer |-> <<>>, service_end_time |-> <<>>]

start_service(w, customer, service_end_time) ==
    [w EXCEPT !.is_available = FALSE,
              !.current_customer = <<customer>>,
              !.service_end_time = <<service_end_time>>]

\* A variant that leaves the finished customer at the window.
finish_service_KeepsCustomer(w) == w

\* The window after finish_service(); the window as it is when it holds no
\* customer (the method then returns None).
finish_service(w) ==
    IF w.current_customer = <<>> THEN w
    ELSE [w EXCEPT !.is_available = TRUE,
                   !.current_customer = <<>>,
                   !.service_end_time = <<>>]

is_service_complete(w, current_time) ==
    IF w.service_end_time = <<>> THEN FALSE
    ELSE current_time >= w.service_end_time[1]

---------------------------------------------------------------------------
(* ClinicSimulationState (entities/clinic_simulation_state.py).            *)

CustomerRecord(customer) ==
    [customer_id |-> customer.customer_id,
     ticket_type |-> customer.ticket_type,
     arrival_time |-> customer.arrival_time,
     service_start_time |-> <<>>, service_end_time |-> <<>>,
     departure_time |-> <<>>, was_served |-> FALSE,
     left_at_closing |-> FALSE]

ClinicSimulationState ==
    [customer_records |-> <<>>, total_customers_arrived |-> 0,
     total_customers_served |-> 0, total_customers_left_at_closing |-> 0]

\* The position of the first record of the customer, 0 when there is none:
\* `for record in self.customer_records: if record.customer_id == ...: break`.
RecordIndex(st, customer) ==
    IF \E i \in 1..Len(st.customer_records) :
           st.customer_records[i].customer_id = customer.customer_id
    THEN CHOOSE i \in 1..Len(st.customer_records) :
           /\ st.customer_records[i].customer_id = customer.customer_id
           /\ \A j \in 1..(i - 1) :
                st.customer_records[j].customer_id # customer.customer_id
    ELSE 0

add_customer_arrival(st, customer) ==
    [st EXCEPT !.customer_records = Append(@, CustomerRecord(customer)),
               !.total_customers_arrived = @ + 1]

record_service_start(st, customer, service_start_time) ==
    LET i == RecordIndex(st, customer)
    IN IF i = 0 THEN st
       ELSE [st EXCEPT !.customer_records[i].service_start_time =
                           <<service_start_time>>]

record_service_completion(st, customer, service_end_time) ==
    LET i == RecordIndex(st, customer)
    IN IF i = 0 THEN st
       ELSE [st EXCEPT !.customer_records[i].service_end_time =
                           <<service_end_time>>,
                       !.customer_records[i].departure_time =
                           <<service_end_time>>,
                       !.customer_records[i].was_served = TRUE,
                       !.total_customers_served = @ + 1]

\* A variant that marks the customer without giving it a departure time.
record_customer_left_at_closing_NoDeparture(st, customer, closing_time) ==
    LET i == RecordIndex(st, customer)
    IN IF i = 0 THEN st
       ELSE [st EXCEPT !.customer_records[i].left_at_closing = TRUE,
                       !.total_customers_left_at_closing = @ + 1]

record_customer_left_at_closing(st, customer, closing_time) ==
    LET i == RecordIndex(st, customer)
    IN IF i = 0 THEN st
       ELSE [st EXCEPT !.customer_records[i].departure_time =
                           <<closing_time>>,
                       !.customer_records[i].left_at_closing = TRUE,
                       !.total_customers_left_at_closing = @ + 1]

---------------------------------------------------------------------------
(* The estimator on its own: the inputs are drawn at the start and the     *)
(* one action calls the function.                                          *)

EstTicketTypes == {"typeA", "typeB"}
EstArrivalTimes == {0, 1}
EstCurrentTimes == {5, 10}

\* The repositories of the estimator's callers: the tests' table, a table
\* of one duration for every type, and a table that lacks typeB.
EstRepos ==
    { <<Row("typeA", 10), Row("typeB", 5)>>,
      <<Row("typeA", 10), Row("typeB", 10)>>,
      <<Row("typeA", 10)>> }

EstQueues ==
    { [i \in DOMAIN f |-> Customer(i, f[i][1], f[i][2])] :
          f \in SeqsUpTo(EstArrivalTimes \X EstTicketTypes, MaxEstLen) }

NoArgs ==
    [service_points |-> 0, priority_tickets |-> {}, p_threshold |-> 0,
     non_p_threshold |-> 0, current_time |-> 0, max_jumps_p |-> 0,
     jumps_limit |-> 0]

\* No call of update_queue_improved since the queue last changed otherwise.
NoCall ==
    [status |-> "none", args |-> NoArgs, pre |-> <<>>, passes |-> 0,
     moves |-> 0, repeat |-> FALSE, prev_moves |-> 0]

NoMove ==
    [moved |-> FALSE, customer_id |-> 0, from |-> 0, to |-> 0, wait |-> 0,
     skips |-> <<>>, before |-> <<>>]

\* The simulator as ClinicQueueSimulator.__init__ leaves it.
Constructed ==
    /\ pc = "constructed"
    /\ pending_arrivals = <<>>
    /\ service_windows = <<>>
    /\ simulation_state = ClinicSimulationState
    /\ last_optimization_time = 0

InitEst ==
    /\ dequeued = <<>>
    /\ Constructed
    /\ num_service_windows = 0
    /\ queue \in EstQueues
    /\ repo \in EstRepos
    /\ clock \in EstCurrentTimes
    /\ nextId = Len(queue) + 1
    /\ est = [called |-> FALSE, service_points |-> 0, outcome |-> NoOutcome]
    /\ call = NoCall
    /\ move = NoMove

EstimateCall(service_points) ==
    /\ ~est.called
    /\ est' = [called |-> TRUE, service_points |-> service_points,
               outcome |-> estimate_total_times_in_line(
                               service_points, queue, repo, clock)]
    /\ UNCHANGED <<dequeued, queueVars, call, move, simVars>>

NextEst == \E service_points \in 0..MaxEstWindows : EstimateCall(service_points)

SpecEst == InitEst /\ [][NextEst]_vars

---------------------------------------------------------------------------
(* The queue and its optimizer: customers are created and enqueued, the    *)
(* head is dequeued, time passes, and update_queue_improved is called with *)
(* arguments of the caller's choice.  A call runs pass by pass; nothing    *)
(* else touches the queue while it runs (the program is single-threaded).  *)

TicketTypes == {"P", "NP"}

\* The service-time table: the simulator's default table (3.32 and 4.15
\* minutes), in whole minutes.
OptRepos == { <<Row("P", 3), Row("NP", 4)>> }

\* The argument values the calls draw from.
ServicePoints == {1, 2}
PThresholds == {2, 7}
NonPThresholds == {3, 7}
MaxJumpsPs == {0, 1}
JumpsLimits == {-1, 0, 1, 2}

\* The minutes at which customers arrive and calls are made.
ClockTimes == {0, 1}

ArgsOfCalls ==
    [service_points : ServicePoints,
     priority_tickets : {{"P"}},
     p_threshold : PThresholds,
     non_p_threshold : NonPThresholds,
     current_time : {clock},
     max_jumps_p : MaxJumpsPs,
     jumps_limit : JumpsLimits]

Init ==
    /\ dequeued = <<>>
    /\ Constructed
    /\ num_service_windows = 0
    /\ queue = <<>>
    /\ repo \in OptRepos
    /\ clock = 0
    /\ nextId = 1
    /\ est = [called |-> FALSE, service_points |-> 0, outcome |-> NoOutcome]
    /\ call = NoCall
    /\ move = NoMove

Idle == call.status # "running"

\* A customer arrives now and joins the rear.
Enqueue(ticket_type) ==
    /\ Idle
    /\ nextId <= MaxCustomers
    /\ queue' = enqueue(queue, Customer(nextId, clock, ticket_type))
    /\ nextId' = nextId + 1
    /\ call' = NoCall
    /\ move' = NoMove
    /\ UNCHANGED <<dequeued, repo, clock, est, simVars>>

\* The head leaves the queue.
Dequeue ==
    /\ Idle
    /\ queue # <<>>
    /\ queue' = dequeue(queue)
    /\ call' = NoCall
    /\ move' = NoMove
    /\ UNCHANGED <<dequeued, repo, clock, nextId, est, simVars>>

Tick ==
    /\ Idle
    /\ clock + 1 \in ClockTimes
    /\ clock' = clock + 1
    /\ call' = NoCall
    /\ move' = NoMove
    /\ UNCHANGED <<dequeued, queue, repo, nextId, est, simVars>>

\* update_queue_improved is entered.  repeat: the call before returned, had
\* the same arguments, and the queue has not been touched since.
CallUpdateQueueImproved(a) ==
    /\ Idle
    /\ call' = [status |-> "running", args |-> a, pre |-> queue,
                passes |-> 0, moves |-> 0,
                repeat |-> (call.status = "returned" /\ call.args = a),
                prev_moves |-> IF call.status = "returned" /\ call.args = a
                               THEN call.moves ELSE 0]
    /\ move' = NoMove
    /\ UNCHANGED <<dequeued, queueVars, est, simVars>>

\* One pass of the stabilization loop; the call returns after a pass
\* without a move.  The pass and move counts stop counting at MaxPasses.
OptimizationPass ==
    /\ call.status = "running"
    /\ \E p \in {Pass(queue, repo, call.args)} :
          LET r == p.result
          IN
          /\ queue' = r.queue
          /\ move' = [moved |-> r.moved, customer_id |-> r.customer_id,
                      from |-> r.from, to |-> r.to, wait |-> r.wait,
                      skips |-> r.skips, before |-> queue]
          /\ call' = [call EXCEPT
                        !.status = IF p.raised THEN "raised"
                                   ELSE IF LoopEnds(r.moved) THEN "returned"
                                   ELSE "running",
                        !.passes = IF @ < MaxPasses THEN @ + 1 ELSE @,
                        !.moves = IF r.moved /\ @ < MaxPasses THEN @ + 1
                                  ELSE @]
    /\ UNCHANGED <<dequeued, repo, clock, nextId, est, simVars>>

Next ==
    \/ \E ticket_type \in TicketTypes : Enqueue(ticket_type)
    \/ Dequeue
    \/ Tick
    \/ \E a \in ArgsOfCalls : CallUpdateQueueImproved(a)
    \/ OptimizationPass

Spec == Init /\ [][Next]_vars

---------------------------------------------------------------------------
(* One call of update_queue_improved on a queue as earlier arrivals and    *)
(* earlier calls can have left it, followed to its end: a call that has    *)
(* been entered goes on to its next pass (`while True` runs in a single    *)
(* thread, nothing suspends it).                                           *)

\* The customers a queue can hold when the call is entered: only a
\* non-priority customer carries skips from earlier calls (update_jumps is
\* applied to no other).
LoopCustomers ==
    {[ticket_type |-> "P", jumps |-> 0],
     [ticket_type |-> "NP", jumps |-> 0],
     [ticket_type |-> "NP", jumps |-> 1]}

LoopQueues ==
    { [i \in DOMAIN f |->
          [Customer(i, 0, f[i].ticket_type) EXCEPT !.jumps = f[i].jumps]] :
          f \in SeqsUpTo(LoopCustomers, MaxCustomers) }

InitLoop ==
    /\ dequeued = <<>>
    /\ Constructed
    /\ num_service_windows = 0
    /\ queue \in LoopQueues
    /\ repo \in OptRepos
    /\ clock = 0
    /\ nextId = Len(queue) + 1
    /\ est = [called |-> FALSE, service_points |-> 0, outcome |-> NoOutcome]
    /\ call = NoCall
    /\ move = NoMove

\* The calls: every threshold, forced-skip budget and skip ceiling of
\* ArgsOfCalls, with one service point.
LoopArgs == {a \in ArgsOfCalls : a.service_points = 1}

NextLoop ==
    \/ /\ call = NoCall
       /\ \E a \in LoopArgs : CallUpdateQueueImproved(a)
    \/ OptimizationPass

SpecLoop == InitLoop /\ [][NextLoop]_vars /\ WF_vars(OptimizationPass)

---------------------------------------------------------------------------
(* One call of update_queue_improved on a longer queue, with one or more   *)
(* service points, taken pass by pass: what a move does to the estimates   *)
(* of the customers around it.                                             *)

MaxMoveLen == 4
MaxMoveWindows == 2

MoveQueues ==
    { [i \in DOMAIN f |->
          [Customer(i, 0, f[i].ticket_type) EXCEPT !.jumps = f[i].jumps]] :
          f \in SeqsUpTo(LoopCustomers, MaxMoveLen) }

InitMove ==
    /\ dequeued = <<>>
    /\ Constructed
    /\ num_service_windows = 0
    /\ queue \in MoveQueues
    /\ repo \in OptRepos
    /\ clock = 0
    /\ nextId = Len(queue) + 1
    /\ est = [called |-> FALSE, service_points |-> 0, outcome |-> NoOutcome]
    /\ call = NoCall
    /\ move = NoMove

\* The calls: every threshold, forced-skip budget and skip ceiling of
\* ArgsOfCalls, with 1 to MaxMoveWindows service points.
MoveArgs ==
    { [a EXCEPT !.service_points = n] :
          a \in LoopArgs, n \in 1..MaxMoveWindows }

NextMove ==
    \/ /\ call = NoCall
       /\ \E a \in MoveArgs : CallUpdateQueueImproved(a)
    \/ OptimizationPass

SpecMove == InitMove /\ [][NextMove]_vars

---------------------------------------------------------------------------
(* The queue under enqueue and dequeue alone: customers are created and    *)
(* enqueued, and dequeue is called, on an empty queue too; what each call  *)
(* returned is kept in dequeued.                                           *)

InitFifo ==
    /\ dequeued = <<>>
    /\ Constructed
    /\ num_service_windows = 0
    /\ queue = <<>>
    /\ repo \in OptRepos
    /\ clock = 0
    /\ nextId = 1
    /\ est = [called |-> FALSE, service_points |-> 0, outcome |-> NoOutcome]
    /\ call = NoCall
    /\ move = NoMove

FifoEnqueue(ticket_type) ==
    /\ nextId <= MaxFifoEnqueues
    /\ queue' = enqueue(queue, Customer(nextId, clock, ticket_type))
    /\ nextId' = nextId + 1
    /\ UNCHANGED <<dequeued, repo, clock, optVars, simVars>>

FifoDequeue ==
    /\ Len(dequeued) < MaxFifoDequeues
    /\ dequeued' = Append(dequeued, dequeue_returns(queue))
    /\ queue' = dequeue(queue)
    /\ UNCHANGED <<repo, clock, nextId, optVars, simVars>>

NextFifo ==
    \/ \E ticket_type \in TicketTypes : FifoEnqueue(ticket_type)
    \/ FifoDequeue

SpecFifo == InitFifo /\ [][NextFifo]_vars

---------------------------------------------------------------------------
(* The queue under update_priority alone: a queue is built from a list of  *)
(* customers and update_priority is called on one of them with a position  *)
(* of the caller's choice; move keeps the call and the queue before it.    *)

RepositionQueues ==
    { [i \in DOMAIN f |-> Customer(i, i - 1, f[i])] :
          f \in SeqsUpTo(TicketTypes, MaxRepositionLen) }

InitReposition ==
    /\ dequeued = <<>>
    /\ Constructed
    /\ num_service_windows = 0
    /\ queue \in RepositionQueues
    /\ repo \in OptRepos
    /\ clock = 0
    /\ nextId = Len(queue) + 1
    /\ est = [called |-> FALSE, service_points |-> 0, outcome |-> NoOutcome]
    /\ call = NoCall
    /\ move = NoMove

\* priority_queue.update_priority(customer, new_position), customer being
\* the one at position k (1-based) of the queue.
UpdatePriority(k, new_position) ==
    /\ queue' = update_priority(queue, queue[k], new_position)
    /\ move' = [moved |-> TRUE, customer_id |-> queue[k].customer_id,
                from |-> k - 1, to |-> new_position, wait |-> 0,
                skips |-> <<>>, before |-> queue]
    /\ UNCHANGED <<dequeued, repo, clock, nextId, est, call, simVars>>

NextReposition ==
    \E k \in 1..Len(queue) :
        \E new_position \in (0 - Len(queue) - 1)..(Len(queue) + 1) :
            UpdatePriority(k, new_position)

SpecReposition == InitReposition /\ [][NextReposition]_vars

---------------------------------------------------------------------------
(* The scenario of cli.py (prueba_2): five customers are enqueued, then    *)
(* update_queue_improved is called at minute 10 of the scenario.           *)

Prueba2Customers ==
    << Customer(1, 0, "Regular"), Customer(2, 1, "VIP"),
       Customer(3, 2, "Regular"), Customer(4, 3, "VIP"),
       Customer(5, 4, "Regular") >>

Prueba2Repo == << Row("Regular", 10), Row("VIP", 5) >>

\* current_eval_time = base_time_p2 + timedelta(minutes=10)
Prueba2EvalTime == 10

\* The arguments of the scenario's call; max_jumps_p and jumps_limit, which
\* the scenario leaves open, range over the values up to the bounds.
Prueba2Args ==
    [service_points : {1},
     priority_tickets : {{"VIP"}},
     p_threshold : {7},
     non_p_threshold : {20},
     current_time : {Prueba2EvalTime},
     max_jumps_p : 0..MaxForcedSkips,
     jumps_limit : 0..MaxCeiling]

InitPrueba2 ==
    /\ dequeued = <<>>
    /\ Constructed
    /\ num_service_windows = 0
    /\ queue = <<>>
    /\ repo = Prueba2Repo
    /\ clock = Prueba2EvalTime
    /\ nextId = 1
    /\ est = [called |-> FALSE, service_points |-> 0, outcome |-> NoOutcome]
    /\ call = NoCall
    /\ move = NoMove

\* for cust in customers: customer_queue.enqueue(cust)
Prueba2Enqueue ==
    /\ nextId <= Len(Prueba2Customers)
    /\ queue' = enqueue(queue, Prueba2Customers[nextId])
    /\ nextId' = nextId + 1
    /\ UNCHANGED <<dequeued, repo, clock, optVars, simVars>>

Prueba2Call(a) ==
    /\ nextId > Len(Prueba2Customers)
    /\ CallUpdateQueueImproved(a)

NextPrueba2 ==
    \/ Prueba2Enqueue
    \/ \E a \in Prueba2Args : Prueba2Call(a)
    \/ OptimizationPass

SpecPrueba2 == InitPrueba2 /\ [][NextPrueba2]_vars

---------------------------------------------------------------------------
(* ClinicQueueSimulator (services/clinic_queue_simulation.py).             *)

OpeningHour == 6
ClosingHour == 18
OptimizationIntervalMinutes == 10
GraceHours == 1

\* simulation_date.replace(hour=..., minute=0, ...), in minutes of the day
opening_time == OpeningHour * 60
closing_time == ClosingHour * 60
max_wait_time == closing_time + GraceHours * 60

\* setup_service_windows
setup_service_windows(n) == [i \in 1..n |-> ServiceWindow(i - 1)]

\* A row of arrivals_df: (SimulatedTurnoInicioDateTime, Group).
InOperatingHours(row) ==
    /\ row[1] \div 60 >= OpeningHour
    /\ row[1] \div 60 < ClosingHour

IsSortedByTime(rows) ==
    \A i \in 1..(Len(rows) - 1) : rows[i][1] <= rows[i + 1][1]

\* sort_values (quicksort: not stable): the arrangements of the rows in
\* ascending order of time, rows of one time in any order.
SortedArrangements(rows) ==
    { r \in { [i \in 1..Len(rows) |-> rows[f[i]]] :
                  f \in Permutations(1..Len(rows)) } : IsSortedByTime(r) }

\* load_arrivals: the rows within operating hours, sorted, as customers
\* numbered from 0.
LoadedArrivals(arrivals_df) ==
    { [i \in 1..Len(r) |-> Customer(i - 1, r[i][1], r[i][2])] :
          r \in SortedArrangements(SelectSeq(arrivals_df, InOperatingHours)) }

\* process_arrivals: self.queue.enqueue(customer) for each new arrival, in
\* the order of pending_arrivals.
RECURSIVE EnqueueAll(_, _)
EnqueueAll(q, customers) ==
    IF customers = <<>> THEN q
    ELSE EnqueueAll(enqueue(q, Head(customers)), Tail(customers))

RECURSIVE AddArrivals(_, _)
AddArrivals(st, customers) ==
    IF customers = <<>> THEN st
    ELSE AddArrivals(add_customer_arrival(st, Head(customers)),
                     Tail(customers))

\* process_service_completions from window i on: the windows and the
\* simulation state after it.
RECURSIVE CompletionsFrom(_, _, _, _)
CompletionsFrom(i, ws, st, current_time) ==
    IF i > Len(ws) THEN [service_windows |-> ws, simulation_state |-> st]
    ELSE IF ~ws[i].is_available /\ is_service_complete(ws[i], current_time)
    THEN CompletionsFrom(i + 1,
             [ws EXCEPT ![i] = finish_service(ws[i])],
             IF ws[i].current_customer = <<>> THEN st
             ELSE record_service_completion(st, ws[i].current_customer[1],
                                            current_time),
             current_time)
    ELSE CompletionsFrom(i + 1, ws, st, current_time)

\* A variant that leaves the loop over the windows after its first
\* assignment.
AssignFrom_StopsAfterFirst(i, ws, q, st, rp, current_time) ==
    LET free == {k \in i..Len(ws) : ws[k].is_available}
    IN IF free = {} \/ Len(q) = 0
       THEN [service_windows |-> ws, queue |-> q, simulation_state |-> st,
             raised |-> FALSE]
       ELSE LET k == CHOOSE x \in free : \A y \in free : x <= y
                customer == Head(q)
            IN [service_windows |->
                    [ws EXCEPT ![k] =
                        start_service(ws[k], customer,
                            current_time
                                + get_estimated_service_time(rp, customer))],
                queue |-> dequeue(q),
                simulation_state |->
                    record_service_start(st, customer, current_time),
                raised |-> FALSE]

\* assign_customers_to_windows from window i on.  raised: the service-time
\* lookup of a dequeued customer failed and the exception left the method.
RECURSIVE AssignFrom(_, _, _, _, _, _)
AssignFrom(i, ws, q, st, rp, current_time) ==
    IF i > Len(ws)
    THEN [service_windows |-> ws, queue |-> q, simulation_state |-> st,
          raised |-> FALSE]
    ELSE IF ws[i].is_available /\ Len(q) > 0
    THEN LET customer == Head(q)
         IN IF LookupFails(rp, customer.ticket_type)
            THEN [service_windows |-> ws, queue |-> dequeue(q),
                  simulation_state |-> st, raised |-> TRUE]
            ELSE LET service_end_time ==
                         current_time + get_estimated_service_time(rp, customer)
                 IN AssignFrom(i + 1,
                        [ws EXCEPT ![i] =
                            start_service(ws[i], customer, service_end_time)],
                        dequeue(q),
                        record_service_start(st, customer, current_time),
                        rp, current_time)
    ELSE AssignFrom(i + 1, ws, q, st, rp, current_time)

\* The parameters of update_queue_improved that have no default, and the
\* keyword arguments optimize_queue passes.  A call that leaves a required
\* parameter unbound raises TypeError before the function body runs.
RequiredParameters ==
    {"queue", "service_times_repo", "service_points", "priority_tickets",
     "p_threshold", "non_p_threshold", "current_time", "max_jumps_p",
     "jumps_limit"}

ArgumentsOfOptimizeQueue ==
    {"queue", "service_times_repo", "service_points", "priority_tickets",
     "p_threshold", "non_p_threshold", "current_time", "debug"}

CallRaisesTypeError == ~(RequiredParameters \subseteq ArgumentsOfOptimizeQueue)

\* A variant that looks at the next arrival only.
NextTimes_ArrivalsOnly(pending, ws) ==
    IF pending # <<>> THEN <<pending[1].arrival_time>> ELSE <<>>

\* A variant that looks at the busy windows only when no arrival is
\* pending.
NextTimes_CompletionsAfterArrivals(pending, ws) ==
    IF pending # <<>> THEN <<pending[1].arrival_time>>
    ELSE [k \in 1..Len(SelectSeq(ws, LAMBDA w : ~w.is_available))
            |-> SelectSeq(ws, LAMBDA w : ~w.is_available)[k]
                    .service_end_time[1]]

\* get_next_event_time: the times of the next arrival and of the busy
\* windows' completions; <<>> is the empty next_times list.
NextTimes(pending, ws) ==
    (IF pending # <<>> THEN <<pending[1].arrival_time>> ELSE <<>>)
    \o [k \in 1..Len(SelectSeq(ws, LAMBDA w : ~w.is_available
                                             /\ w.service_end_time # <<>>))
          |-> SelectSeq(ws, LAMBDA w : ~w.is_available
                                       /\ w.service_end_time # <<>>)[k]
                  .service_end_time[1]]

\* handle_closing_time: everybody still queued leaves, head first.
RECURSIVE LeaveAtClosing(_, _)
LeaveAtClosing(st, q) ==
    IF q = <<>> THEN st
    ELSE LeaveAtClosing(
             record_customer_left_at_closing(st, Head(q), closing_time),
             Tail(q))

\* while self.current_time < max_wait_time
GraceContinues(current_time) == current_time < max_wait_time

---------------------------------------------------------------------------
(* A simulated day: simulate_day step by step.                             *)

SimTicketTypes == {"P", "NP"}

\* The tables of the simulated clinics: the default table (3.32 and 4.15
\* minutes, in whole minutes) and a table with a long consultation.
SimRepos ==
    { <<Row("P", 3), Row("NP", 4)>>,
      <<Row("P", 3), Row("NP", 65)>> }

SimWindowCounts == {1, 2}

\* The times of day of the rows of arrivals_df: before opening, at
\* opening, during the day, near closing and at closing.
SimArrivalTimes ==
    { opening_time - 1, opening_time, opening_time + 12,
      closing_time - 5, closing_time - 1, closing_time }

ArrivalFrames == SeqsUpTo(SimArrivalTimes \X SimTicketTypes, MaxArrivals)

InitSim ==
    /\ dequeued = <<>>
    /\ Constructed
    /\ num_service_windows \in SimWindowCounts
    /\ queue = <<>>
    /\ repo \in SimRepos
    /\ clock = 0
    /\ nextId = 0
    /\ est = [called |-> FALSE, service_points |-> 0, outcome |-> NoOutcome]
    /\ call = NoCall
    /\ move = NoMove

\* simulate_day up to the main loop's first test.
SimulateDay(arrivals_df) ==
    /\ pc = "constructed"
    /\ service_windows' = setup_service_windows(num_service_windows)
    /\ pending_arrivals' \in LoadedArrivals(arrivals_df)
    /\ nextId' = Len(pending_arrivals')
    /\ simulation_state' = ClinicSimulationState
    /\ clock' = opening_time
    /\ last_optimization_time' = opening_time
    /\ pc' = IF opening_time < closing_time THEN "process_arrivals"
             ELSE "handle_closing_time"
    /\ UNCHANGED <<dequeued, queue, repo, optVars, num_service_windows>>

ProcessArrivals ==
    /\ pc = "process_arrivals"
    /\ LET new_arrivals ==
               SelectSeq(pending_arrivals,
                         LAMBDA c : c.arrival_time <= clock)
           remaining_arrivals ==
               SelectSeq(pending_arrivals,
                         LAMBDA c : ~(c.arrival_time <= clock))
       IN /\ pending_arrivals' = remaining_arrivals
          /\ queue' = EnqueueAll(queue, new_arrivals)
          /\ simulation_state' = AddArrivals(simulation_state, new_arrivals)
    /\ pc' = "process_service_completions"
    /\ UNCHANGED <<dequeued, repo, clock, nextId, optVars, num_service_windows,
                   service_windows, last_optimization_time>>

ProcessServiceCompletions ==
    /\ pc = "process_service_completions"
    /\ LET r == CompletionsFrom(1, service_windows, simulation_state, clock)
       IN /\ service_windows' = r.service_windows
          /\ simulation_state' = r.simulation_state
    /\ pc' = "assign_customers_to_windows"
    /\ UNCHANGED <<dequeued, queueVars, optVars, num_service_windows, pending_arrivals,
                   last_optimization_time>>

AssignCustomersToWindows ==
    /\ pc = "assign_customers_to_windows"
    /\ LET r == AssignFrom(1, service_windows, queue, simulation_state, repo,
                           clock)
       IN /\ service_windows' = r.service_windows
          /\ queue' = r.queue
          /\ simulation_state' = r.simulation_state
          /\ pc' = IF r.raised THEN "raised" ELSE "optimize_queue"
    /\ UNCHANGED <<dequeued, repo, clock, nextId, optVars, num_service_windows,
                   pending_arrivals, last_optimization_time>>

\* A variant that finds the optimization due in every iteration.
IntervalElapsed_Always(current_time, last_time) == TRUE

\* (self.current_time - last_optimization_time).total_seconds()
\*     >= optimization_interval_minutes * 60
IntervalElapsed(current_time, last_time) ==
    (current_time - last_time) * 60 >= OptimizationIntervalMinutes * 60

\* The periodic optimization of the main loop: optimize_queue calls
\* update_queue_improved when more than one customer waits.
PeriodicOptimization ==
    /\ pc = "optimize_queue"
    /\ IF IntervalElapsed(clock, last_optimization_time)
       THEN IF Len(queue) > 1 /\ CallRaisesTypeError
            THEN /\ pc' = "raised"
                 /\ UNCHANGED last_optimization_time
            ELSE /\ pc' = "get_next_event_time"
                 /\ last_optimization_time' = clock
       ELSE /\ pc' = "get_next_event_time"
            /\ UNCHANGED last_optimization_time
    /\ UNCHANGED <<dequeued, queueVars, optVars, num_service_windows, pending_arrivals,
                   service_windows, simulation_state>>

\* The end of an iteration of the main loop: the jump to the next event,
\* or to closing time and out of the loop.
AdvanceToNextEvent ==
    /\ pc = "get_next_event_time"
    /\ LET next_times == NextTimes(pending_arrivals, service_windows)
       IN IF next_times = <<>> \/ ListMin(next_times) >= closing_time
          THEN /\ clock' = closing_time
               /\ pc' = "handle_closing_time"
          ELSE /\ clock' = ListMin(next_times)
               /\ pc' = IF ListMin(next_times) < closing_time
                        THEN "process_arrivals" ELSE "handle_closing_time"
    /\ UNCHANGED <<dequeued, queue, repo, nextId, optVars, num_service_windows,
                   pending_arrivals, service_windows, simulation_state,
                   last_optimization_time>>

HandleClosingTime ==
    /\ pc = "handle_closing_time"
    /\ simulation_state' = LeaveAtClosing(simulation_state, queue)
    /\ queue' = <<>>
    /\ pc' = IF GraceContinues(clock) THEN "wait_for_services" ELSE "returned"
    /\ UNCHANGED <<dequeued, repo, clock, nextId, optVars, num_service_windows,
                   pending_arrivals, service_windows, last_optimization_time>>

\* One iteration of the loop that waits for the services in progress, and
\* the loop's next test; simulate_day returns when the loop ends.
WaitForServices ==
    /\ pc = "wait_for_services"
    /\ LET r == CompletionsFrom(1, service_windows, simulation_state, clock)
           next_times == NextTimes(pending_arrivals, r.service_windows)
       IN /\ service_windows' = r.service_windows
          /\ simulation_state' = r.simulation_state
          /\ IF \A i \in 1..Len(r.service_windows) :
                    r.service_windows[i].is_available
             THEN pc' = "returned" /\ UNCHANGED clock
             ELSE IF next_times = <<>>
             THEN pc' = "returned" /\ UNCHANGED clock
             ELSE LET t == IF ListMin(next_times) < max_wait_time
                           THEN ListMin(next_times) ELSE max_wait_time
                  IN /\ clock' = t
                     /\ pc' = IF GraceContinues(t) THEN "wait_for_services"
                              ELSE "returned"
    /\ UNCHANGED <<dequeued, queue, repo, nextId, optVars, num_service_windows,
                   pending_arrivals, last_optimization_time>>

NextSim ==
    \/ /\ pc = "constructed"
       /\ \E arrivals_df \in ArrivalFrames : SimulateDay(arrivals_df)
    \/ ProcessArrivals
    \/ ProcessServiceCompletions
    \/ AssignCustomersToWindows
    \/ PeriodicOptimization
    \/ AdvanceToNextEvent
    \/ HandleClosingTime
    \/ WaitForServices

SpecSim == InitSim /\ [][NextSim]_vars

\* The simulated day with its scheduling: simulate_day runs in one thread
\* and nothing suspends it, so a day that can take a step takes it.
SpecSimFair == InitSim /\ [][NextSim]_vars /\ WF_vars(NextSim)

---------------------------------------------------------------------------
(* The callers of get_estimated_service_time on one queue and one table:   *)
(* the estimator, the optimizer and assign_customers_to_windows, each      *)
(* called on the queue as it was built.                                    *)

LookupQueues ==
    { [i \in DOMAIN f |-> Customer(i, f[i][1], f[i][2])] :
          f \in SeqsUpTo(EstArrivalTimes \X EstTicketTypes, MaxLookupLen) }

LookupArgs ==
    [service_points : {1, 2},
     priority_tickets : {{"typeB"}},
     p_threshold : {7},
     non_p_threshold : {20},
     current_time : {clock},
     max_jumps_p : {0, 1},
     jumps_limit : {1}]

LookupWindowCounts == {1, 2}

InitLookup ==
    /\ dequeued = <<>>
    /\ pc = "constructed"
    /\ pending_arrivals = <<>>
    /\ service_windows = <<>>
    /\ last_optimization_time = 0
    /\ num_service_windows \in LookupWindowCounts
    /\ queue \in LookupQueues
    /\ simulation_state = AddArrivals(ClinicSimulationState, queue)
    /\ repo \in EstRepos
    /\ clock \in EstCurrentTimes
    /\ nextId = Len(queue) + 1
    /\ est = [called |-> FALSE, service_points |-> 0, outcome |-> NoOutcome]
    /\ call = NoCall
    /\ move = NoMove

Untouched == pc = "constructed" /\ ~est.called /\ call.status = "none"

LookupEstimate(service_points) ==
    /\ Untouched
    /\ EstimateCall(service_points)

LookupOptimize(a) ==
    /\ Untouched
    /\ CallUpdateQueueImproved(a)

\* setup_service_windows, then assign_customers_to_windows at the current
\* time.
LookupAssign ==
    /\ Untouched
    /\ LET r == AssignFrom(1, setup_service_windows(num_service_windows),
                           queue, simulation_state, repo, clock)
       IN /\ service_windows' = r.service_windows
          /\ queue' = r.queue
          /\ simulation_state' = r.simulation_state
          /\ pc' = IF r.raised THEN "raised" ELSE "optimize_queue"
    /\ UNCHANGED <<dequeued, repo, clock, nextId, optVars, num_service_windows,
                   pending_arrivals, last_optimization_time>>

NextLookup ==
    \/ \E service_points \in 0..MaxEstWindows : LookupEstimate(service_points)
    \/ \E a \in LookupArgs : LookupOptimize(a)
    \/ OptimizationPass
    \/ LookupAssign

SpecLookup == InitLookup /\ [][NextLookup]_vars

---------------------------------------------------------------------------
(* Properties of the simulated day, checked under SpecSim.                 *)

\* C1: after simulate_day returns, every recorded customer is exactly one
\* of served and left at closing, and the served and left counts add up
\* to the arrivals.
C1_EveryCustomerServedOrLeft ==
    pc = "returned"
    => /\ \A i \in 1..Len(simulation_state.customer_records) :
            simulation_state.customer_records[i].was_served
                # simulation_state.customer_records[i].left_at_closing
       /\ simulation_state.total_customers_served
              + simulation_state.total_customers_left_at_closing
            = simulation_state.total_customers_arrived

---------------------------------------------------------------------------
(* Properties of the optimizer, checked under Spec.                        *)

InCall == call.status \in {"running", "returned"}

\* The customer of q with the customer_id of c, when there is one.
Has(q, c) == \E i \in 1..Len(q) : q[i].customer_id = c.customer_id

\* The estimates the pass that made the last move started from.
EstimatesBeforeMove ==
    estimate_total_times_in_line(call.args.service_points, move.before, repo,
                                 call.args.current_time).value

\* C2: no customer's skip counter (jumps) ever decreases, and during and
\* after every call of update_queue_improved a customer whose counter was
\* at most jumps_limit before the call has a counter at most jumps_limit.
C2_JumpsMonotoneAndCapped ==
    [][ /\ \A i \in 1..Len(queue) : \A j \in 1..Len(queue') :
              queue[i].customer_id = queue'[j].customer_id
                  => queue'[j].jumps >= queue[i].jumps
        /\ (call'.status \in {"running", "returned"})
              => \A i \in 1..Len(call'.pre) : \A j \in 1..Len(queue') :
                   (/\ call'.pre[i].customer_id = queue'[j].customer_id
                    /\ call'.pre[i].jumps <= call'.args.jumps_limit)
                   => queue'[j].jumps <= call'.args.jumps_limit
      ]_vars

\* A call has returned after a move, and a priority customer stands right
\* behind a customer whose counter is at the ceiling.
C2_Witness ==
    /\ call.status = "returned" /\ call.moves >= 1
    /\ call.args.jumps_limit >= 1
    /\ \E i \in 1..(Len(queue) - 1) :
          /\ queue[i].jumps = call.args.jumps_limit
          /\ ~IsPriority(queue[i], call.args.priority_tickets)
          /\ IsPriority(queue[i + 1], call.args.priority_tickets)

\* C3: in every move, each customer skipped without the forced-skip budget
\* has a new projected wait (its projected wait at pass start plus the
\* moving customer's expected service duration) of at most non_p_threshold.
C3_UnforcedSkipWithinNonPThreshold ==
    (InCall /\ move.moved)
    => LET mover == move.before[move.from + 1]
       IN /\ Len(move.skips) = move.from - move.to
          /\ \A k \in 1..Len(move.skips) :
               LET skip == move.skips[k]
                   pos == move.from + 1 - k
                   new_wait == EstimatesBeforeMove[pos][2]
                                 + get_estimated_service_time(repo, mover)
               IN /\ move.before[pos].customer_id = skip.customer_id
                  /\ ~skip.special => new_wait <= call.args.non_p_threshold

\* One move skips a customer on the budget and another within the threshold.
C3_Witness ==
    /\ InCall /\ move.moved
    /\ \E k \in 1..Len(move.skips) : move.skips[k].special
    /\ \E k \in 1..Len(move.skips) : ~move.skips[k].special

\* C4: two priority customers A ahead of B before a call of
\* update_queue_improved are in that order during and after the call.
C4_PriorityPairsKeepOrder ==
    InCall
    => \A i \in 1..Len(call.pre) : \A j \in (i + 1)..Len(call.pre) :
          (/\ IsPriority(call.pre[i], call.args.priority_tickets)
           /\ IsPriority(call.pre[j], call.args.priority_tickets))
          => PositionOf(queue, call.pre[i]) < PositionOf(queue, call.pre[j])

\* A call has returned and moved the second of two priority customers.
C4_Witness ==
    /\ call.status = "returned"
    /\ \E i \in 1..Len(call.pre) : \E j \in (i + 1)..Len(call.pre) :
          /\ IsPriority(call.pre[i], call.args.priority_tickets)
          /\ IsPriority(call.pre[j], call.args.priority_tickets)
          /\ PositionOf(queue, call.pre[j]) < j

\* C5: a second call of update_queue_improved with the arguments of the
\* call before it, and nothing in between, makes no move: it returns with
\* the queue order and every skip counter as the first call left them.
C5_SecondCallMakesNoMove ==
    (call.status = "returned" /\ call.repeat)
    => /\ call.moves = 0
       /\ queue = call.pre

\* The second of two such calls has returned; the first had made moves.
C5_Witness ==
    /\ call.status = "returned" /\ call.repeat
    /\ call.prev_moves >= 2

\* C6: the optimizer moves only priority customers whose projected wait at
\* the start of the pass exceeds p_threshold.
C6_MovesOnlyAbovePThreshold ==
    (InCall /\ move.moved) => move.wait > call.args.p_threshold

---------------------------------------------------------------------------
(* Properties of the estimator, checked under SpecEst.                     *)

ElapsedWait(c) == clock - c.arrival_time

AllTicketTypesKnown(q) == \A i \in 1..Len(q) : ~LookupFails(repo, q[i].ticket_type)

\* The customers ahead of position i (1-based) and their service times.
ServiceTimesAhead(q, i) ==
    [j \in 1..(i - 1) |-> get_estimated_service_time(repo, q[j])]

\* C7: for a non-empty queue and service_points >= 1 (every ticket type in
\* the table), estimate_total_times_in_line returns one (customer, value)
\* pair per queue member, in queue order, and each value is at least that
\* customer's elapsed wait.
C7_OnePairPerMemberNoNegativeWait ==
    (est.called /\ queue # <<>> /\ est.service_points >= 1
        /\ AllTicketTypesKnown(queue))
    => /\ est.outcome.kind = "ok"
       /\ Len(est.outcome.value) = Len(queue)
       /\ \A i \in 1..Len(queue) :
            /\ est.outcome.value[i][1] = queue[i]
            /\ est.outcome.value[i][2] >= ElapsedWait(queue[i])

C7_Witness ==
    /\ est.called /\ est.service_points = 2 /\ Len(queue) = 4
    /\ est.outcome.kind = "ok"
    /\ queue[1].arrival_time # queue[2].arrival_time
    /\ est.outcome.value[4][2] > ElapsedWait(queue[4])
    /\ est.outcome.value[1][2] = ElapsedWait(queue[1])

\* All customers of q share the expected service duration d.
SharedDuration(q, d) ==
    \A i \in 1..Len(q) :
        /\ ~LookupFails(repo, q[i].ticket_type)
        /\ get_estimated_service_time(repo, q[i]) = d

\* C8: with W >= 1 service points and all customers sharing one expected
\* service duration d, the projected wait until service of the customer at
\* 0-indexed position k is floor(k / W) * d.
C8_SharedDurationFloorLaw ==
    \A d \in {repo[i].service_time : i \in 1..Len(repo)} :
        (est.called /\ est.service_points >= 1 /\ queue # <<>>
            /\ SharedDuration(queue, d))
        => /\ est.outcome.kind = "ok"
           /\ \A i \in 1..Len(queue) :
                est.outcome.value[i][2] - ElapsedWait(queue[i])
                    = ((i - 1) \div est.service_points) * d

\* W = 2, d = 10 and five customers: the waits until service are
\* 0, 0, 10, 10, 20.
C8_Witness ==
    /\ est.called /\ est.service_points = 2 /\ Len(queue) = 5
    /\ SharedDuration(queue, 10)
    /\ est.outcome.kind = "ok"
    /\ [i \in 1..5 |-> est.outcome.value[i][2] - ElapsedWait(queue[i])]
           = <<0, 0, 10, 10, 20>>

\* C9: the estimated time left in queue of a customer is the sum of the
\* expected service times of the customers ahead of it divided by
\* service_points (stated without the division: the time left multiplied
\* by service_points is that sum).
C9_TimeLeftIsSumAheadOverServicePoints ==
    (est.called /\ est.outcome.kind = "ok" /\ est.service_points >= 1)
    => \A i \in 1..Len(queue) :
           (est.outcome.value[i][2] - ElapsedWait(queue[i])) * est.service_points
               = SumSeq(ServiceTimesAhead(queue, i))

C11_EmptyQueueYieldsEmptyList ==
    (est.called /\ queue = <<>>)
    => est.outcome = [kind |-> "ok", value |-> <<>>]

\* The call was made with service_points = 0 on an empty queue.
C11_Witness ==
    /\ est.called /\ queue = <<>> /\ est.service_points = 0
    /\ est.outcome.kind = "ok"

---------------------------------------------------------------------------
(* Further properties of the optimizer, checked under Spec.                *)

\* No customer of q has a priority ticket (true of the empty queue).
NoPriorityCustomer(q, priority_tickets) ==
    \A i \in 1..Len(q) : ~IsPriority(q[i], priority_tickets)

\* C12: a call of update_queue_improved on an empty queue, or on a queue
\* without a priority customer, makes no move and returns after its first
\* pass with the queue order and every customer's jumps as they were
\* (service_points >= 1 and every ticket type in the table).
C12_NoPriorityCustomerNoChange ==
    (InCall /\ NoPriorityCustomer(call.pre, call.args.priority_tickets))
    => /\ queue = call.pre
       /\ call.moves = 0
       /\ call.passes >= 1 => (call.status = "returned" /\ call.passes = 1)

\* A call on two non-priority customers, the first below the jumps limit,
\* has returned.
C12_Witness ==
    /\ call.status = "returned"
    /\ Len(call.pre) >= 2
    /\ NoPriorityCustomer(call.pre, call.args.priority_tickets)
    /\ call.pre[1].jumps < call.args.jumps_limit

---------------------------------------------------------------------------
(* The scenario of prueba_2, checked under SpecPrueba2.                    *)

\* The projected total waits recomputed on the queue as it stands.
RecomputedWaits ==
    estimate_total_times_in_line(call.args.service_points, queue, repo,
                                 call.args.current_time).value

\* The customer at position i (1-based) cannot be moved forward: it is at
\* the head, or the customer directly ahead has a priority ticket, is at
\* the jumps limit, or would wait longer than non_p_threshold while the
\* call has no special-jump budget.
Unmovable(i) ==
    \/ i = 1
    \/ IsPriority(queue[i - 1], call.args.priority_tickets)
    \/ queue[i - 1].jumps >= call.args.jumps_limit
    \/ /\ RecomputedWaits[i - 1][2]
              + get_estimated_service_time(repo, queue[i])
            > call.args.non_p_threshold
       /\ call.args.max_jumps_p = 0

\* C13: in the scenario (one window, Regular 10 and VIP 5 minutes, VIP the
\* priority type, p_threshold 7, non_p_threshold 20, the five customers
\* evaluated at minute 10) the projected waits at the start of the first
\* call are 10 for the first Regular and 19 for the first VIP, and after a
\* call of update_queue_improved has returned, whatever max_jumps_p and
\* jumps_limit, every VIP has a recomputed projected wait of at most 7 or
\* cannot be moved.
C13_Prueba2VipsWithinThresholdOrUnmovable ==
    /\ (call.status = "running" /\ call.passes = 0
            /\ call.pre = Prueba2Customers)
       => /\ RecomputedWaits[1][2] = 10
          /\ RecomputedWaits[2][2] = 19
    /\ call.status = "returned"
       => /\ Len(queue) = Len(Prueba2Customers)
          /\ \A i \in 1..Len(queue) :
                IsPriority(queue[i], call.args.priority_tickets)
                => \/ RecomputedWaits[i][2] <= call.args.p_threshold
                   \/ Unmovable(i)

\* The first call has returned with both VIPs moved: the second VIP used
\* the budget once and stands right behind the first.
C13_Witness ==
    /\ call.status = "returned"
    /\ call.pre = Prueba2Customers
    /\ call.moves = 2
    /\ [i \in 1..Len(queue) |-> queue[i].customer_id] = <<2, 4, 1, 3, 5>>
    /\ [i \in 1..Len(queue) |-> queue[i].jumps] = <<0, 0, 2, 1, 0>>

---------------------------------------------------------------------------
(* Further properties of the simulated day, checked under SpecSim.         *)

\* The periodic optimization is due at the current time.
OptimizationDue ==
    (clock - last_optimization_time) * 60 >= OptimizationIntervalMinutes * 60

\* C14: in every iteration of the main loop in which the time since the
\* last optimization is at least the interval, the call of the optimizer
\* completes (the simulation goes on to the next event) and
\* last_optimization_time becomes the current time.
C14_PeriodicOptimizationCompletes ==
    [][ (pc = "optimize_queue" /\ OptimizationDue)
        => (pc' = "get_next_event_time" /\ last_optimization_time' = clock)
      ]_vars

\* The record of the customer in the simulation state st.
RecordOf(st, customer) == st.customer_records[RecordIndex(st, customer)]

\* C15: when the main loop has ended, handle_closing_time empties the
\* queue and records every customer that was in it as left at closing, with
\* the closing time as departure time, one count each; from then on the
\* queue stays empty, and a customer recorded as left at closing never has
\* a service start time.
C15_QueueLeavesAtClosing ==
    /\ [][ pc = "handle_closing_time"
            => /\ queue' = <<>>
               /\ simulation_state'.total_customers_left_at_closing
                    = simulation_state.total_customers_left_at_closing
                        + Len(queue)
               /\ \A i \in 1..Len(queue) :
                    LET r == RecordOf(simulation_state', queue[i])
                    IN /\ r.left_at_closing
                       /\ r.departure_time = <<closing_time>>
                       /\ r.service_start_time = <<>>
                       /\ ~r.was_served
          ]_vars
    /\ [](pc \in {"wait_for_services", "returned"} => queue = <<>>)
    /\ [](\A i \in 1..Len(simulation_state.customer_records) :
            simulation_state.customer_records[i].left_at_closing
            => /\ simulation_state.customer_records[i].service_start_time = <<>>
               /\ simulation_state.customer_records[i].departure_time
                    = <<closing_time>>)

\* handle_closing_time has run: two customers left at closing while a
\* third is still in service.
C15_Witness ==
    /\ pc = "wait_for_services"
    /\ simulation_state.total_customers_left_at_closing = 2
    /\ \E i \in 1..Len(service_windows) : ~service_windows[i].is_available
    /\ queue = <<>>

\* The service end times of the windows that hold a customer.
BusyEndTimes ==
    {service_windows[i].service_end_time[1] :
        i \in {j \in 1..Len(service_windows) :
                  ~service_windows[j].is_available}}

\* C16: after closing the clock moves only to the end of a service in
\* progress or to closing + 1 hour and never beyond it, simulate_day
\* returns as soon as every window is idle, and every customer whose
\* service had started is recorded as served when simulate_day returns.
C16_GracePeriodServesThoseInService ==
    /\ [][ (pc = "wait_for_services" /\ clock' # clock)
            => /\ clock' \in BusyEndTimes \cup {max_wait_time}
               /\ clock' <= max_wait_time
          ]_vars
    /\ [][ (pc = "wait_for_services"
             /\ \A i \in 1..Len(service_windows') :
                    service_windows'[i].is_available)
            => (pc' = "returned" /\ clock' = clock)
          ]_vars
    /\ [](pc = "returned" => clock <= max_wait_time)
    /\ [](pc = "returned"
          => \A i \in 1..Len(simulation_state.customer_records) :
                simulation_state.customer_records[i].service_start_time # <<>>
                => simulation_state.customer_records[i].was_served)

\* The records of the day in progress.
Records == simulation_state.customer_records

\* The records (by position) of the customers served, and of those that
\* left at closing.
ServedRecords == {i \in 1..Len(Records) : Records[i].was_served}
LeftRecords == {i \in 1..Len(Records) : Records[i].left_at_closing}

\* C17: a customer's record only moves forward: a service start time, a
\* service end time and a departure time, once set, are never set again;
\* a customer is completed only after its service started; no customer is
\* both served and left at closing, none that left at closing has a
\* service start time, and each served or left customer is counted once.
C17_RecordLifeCycle ==
    /\ [][ pc # "constructed"
            => \A i \in 1..Len(Records) :
                 LET r == Records[i]
                     r2 == simulation_state'.customer_records[i]
                 IN /\ Len(simulation_state'.customer_records) >= Len(Records)
                    /\ r2.customer_id = r.customer_id
                    /\ r.service_start_time # <<>>
                         => r2.service_start_time = r.service_start_time
                    /\ r.service_end_time # <<>>
                         => r2.service_end_time = r.service_end_time
                    /\ r.departure_time # <<>>
                         => r2.departure_time = r.departure_time
                    /\ r.was_served => r2.was_served
                    /\ r.left_at_closing => r2.left_at_closing
          ]_vars
    /\ [](\A i \in 1..Len(Records) :
            LET r == Records[i]
            IN /\ ~(r.was_served /\ r.left_at_closing)
               /\ r.left_at_closing => r.service_start_time = <<>>
               /\ r.was_served <=> r.service_end_time # <<>>
               /\ r.service_end_time # <<>> => r.service_start_time # <<>>
               /\ r.departure_time # <<>>
                    <=> (r.was_served \/ r.left_at_closing))
    /\ [](/\ simulation_state.total_customers_served
               = Cardinality(ServedRecords)
          /\ simulation_state.total_customers_left_at_closing
               = Cardinality(LeftRecords)
          /\ simulation_state.total_customers_arrived = Len(Records))

\* The day is over: one customer was served by a window that served
\* another before, and a third left at closing.
C17_Witness ==
    /\ pc = "returned"
    /\ Len(service_windows) = 1
    /\ Cardinality(ServedRecords) = 2
    /\ Cardinality(LeftRecords) = 1

\* The windows (by position) that hold a customer.
BusyWindows ==
    {i \in 1..Len(service_windows) : service_windows[i].current_customer # <<>>}

\* C18: an admitted customer is in at most one place: no two entries of
\* the queue have the same customer_id, no customer of the queue is held
\* by a service window, and no two windows hold the same customer.
C18_CustomerInAtMostOnePlace ==
    /\ \A i \in 1..Len(queue) : \A j \in 1..Len(queue) :
          queue[i].customer_id = queue[j].customer_id => i = j
    /\ \A w \in BusyWindows : \A i \in 1..Len(queue) :
          service_windows[w].current_customer[1].customer_id
              # queue[i].customer_id
    /\ \A w \in BusyWindows : \A v \in BusyWindows :
          service_windows[w].current_customer[1].customer_id
              = service_windows[v].current_customer[1].customer_id
          => w = v
    /\ \A i \in 1..Len(queue) : \A j \in 1..Len(pending_arrivals) :
          queue[i].customer_id # pending_arrivals[j].customer_id

\* Two windows hold a customer each while a third customer waits.
C18_Witness ==
    /\ Cardinality(BusyWindows) = 2
    /\ Len(queue) = 1
    /\ pc = "optimize_queue"

---------------------------------------------------------------------------
(* The service-time lookup, checked under SpecLookup.                      *)

\* The table rp has a row for the ticket type.
HasRow(rp, ticket_type) ==
    \E k \in 1..Len(rp) : rp[k].ticket_type = ticket_type

\* Some customer of q has a ticket type the table lacks.
SomeTypeAbsent(q) == \E i \in 1..Len(q) : ~HasRow(repo, q[i].ticket_type)

\* The customers assign_customers_to_windows takes from the queue q for n
\* windows, all available: the first n, or all of q.
TakenForWindows(q, n) == SubSeq(q, 1, IF n < Len(q) THEN n ELSE Len(q))

\* C19: the lookup of the service time of a customer whose ticket type is
\* not in the table fails instead of yielding a duration: the estimator
\* raises (IndexError when service_points >= 1) and returns no estimate,
\* update_queue_improved raises in its first pass and leaves the queue as
\* it was, and assign_customers_to_windows raises at the first such
\* customer it takes, which no window then holds and which gets no service
\* start time.
C19_UnknownTicketTypeFailsLookup ==
    /\ []((est.called /\ SomeTypeAbsent(queue))
          => /\ est.outcome.kind \in {"IndexError", "ValueError"}
             /\ est.service_points >= 1 => est.outcome.kind = "IndexError"
             /\ est.outcome.value = <<>>)
    /\ []((call.passes >= 1 /\ SomeTypeAbsent(call.pre))
          => /\ call.status = "raised"
             /\ call.passes = 1 /\ call.moves = 0
             /\ queue = call.pre)
    /\ [][ (pc = "constructed" /\ pc' # "constructed")
            => /\ pc' = "raised"
                   <=> SomeTypeAbsent(
                           TakenForWindows(queue, num_service_windows))
               /\ \A w \in 1..Len(service_windows') :
                     service_windows'[w].current_customer # <<>>
                     => HasRow(repo,
                            service_windows'[w].current_customer[1].ticket_type)
               /\ \A k \in 1..Len(simulation_state'.customer_records) :
                     LET r == simulation_state'.customer_records[k]
                     IN r.service_start_time # <<>>
                        => HasRow(repo, r.ticket_type)
          ]_vars

\* assign_customers_to_windows raised at the second customer, of a ticket
\* type the table lacks, after the first window took the first customer;
\* the second customer is in no window and no longer in the queue.
C19_Witness ==
    /\ pc = "raised"
    /\ Len(service_windows) = 2
    /\ service_windows[1].current_customer # <<>>
    /\ service_windows[2].current_customer = <<>>
    /\ Len(simulation_state.customer_records) = 3
    /\ ~HasRow(repo, simulation_state.customer_records[2].ticket_type)
    /\ Len(queue) = 1

---------------------------------------------------------------------------
(* The queue as a FIFO, checked under SpecFifo.                            *)

\* The customers the calls of dequeue returned, in order (None left out).
ReturnedCustomers ==
    [i \in 1..Len(SelectSeq(dequeued, LAMBDA r : r # <<>>))
        |-> SelectSeq(dequeued, LAMBDA r : r # <<>>)[i][1]]

\* C20: with enqueue and dequeue alone, dequeue returns the customers in
\* the order they were enqueued (customer_id numbers them in that order):
\* each call on a non-empty queue returns and removes the customer
\* enqueued earliest among those still queued, and a call on an empty
\* queue returns None and leaves the queue empty.
C20_FifoUnderEnqueueDequeue ==
    /\ []([i \in 1..(Len(ReturnedCustomers) + Len(queue))
              |-> (ReturnedCustomers \o queue)[i].customer_id]
            = [i \in 1..(nextId - 1) |-> i])
    /\ [][ Len(dequeued') > Len(dequeued)
            => IF queue = <<>>
               THEN /\ dequeued'[Len(dequeued')] = <<>>
                    /\ queue' = <<>>
               ELSE /\ dequeued'[Len(dequeued')] = <<queue[1]>>
                    /\ <<queue[1]>> \o queue' = queue
          ]_vars

\* Two customers were enqueued, then dequeue was called three times: it
\* returned the first, the second, and None.
C20_Witness ==
    /\ Len(dequeued) = 3
    /\ dequeued[1] # <<>> /\ dequeued[1][1].customer_id = 1
    /\ dequeued[2] # <<>> /\ dequeued[2][1].customer_id = 2
    /\ dequeued[3] = <<>>
    /\ nextId = 3
    /\ queue = <<>>

---------------------------------------------------------------------------
(* update_priority, checked under SpecReposition.                          *)

\* The customer_ids of q, head first.
IdsOf(q) == [i \in 1..Len(q) |-> q[i].customer_id]

\* C21: update_priority(customer, i) with 0 <= i < len(queue), on a queue
\* that holds the customer, leaves the customer at 0-based index i, keeps
\* the length of the queue, and keeps all other customers in the order
\* they had.
C21_UpdatePriorityPlacesAtIndex ==
    (move.moved /\ move.to >= 0 /\ move.to < Len(move.before))
    => /\ Len(queue) = Len(move.before)
       /\ queue[move.to + 1] = move.before[move.from + 1]
       /\ RemoveAt(queue, move.to + 1) = RemoveAt(move.before, move.from + 1)

\* The last of three customers was moved to index 0: [c3, c1, c2].
C21_Witness ==
    /\ move.moved /\ move.to = 0 /\ move.from = 2
    /\ IdsOf(move.before) = <<1, 2, 3>>
    /\ IdsOf(queue) = <<3, 1, 2>>

---------------------------------------------------------------------------
(* The stabilization loop, checked under SpecLoop.                         *)

\* C22: every call of update_queue_improved that has been entered comes,
\* after finitely many passes, to a pass that makes no move, and returns.
C22_StabilizationLoopTerminates ==
    (call.status = "running")
        ~> (call.status = "returned" /\ ~move.moved /\ call.passes < MaxPasses)

\* A call returned after two moves, three passes.
C22_Witness ==
    /\ call.status = "returned"
    /\ call.moves = 2
    /\ call.passes = 3

---------------------------------------------------------------------------
(* The walk of calculate_customer_new_position, checked under Spec.  An    *)
(* evaluation that skips nobody makes no move, so the evaluations that     *)
(* skip are the moves.                                                     *)

\* The moving customer of the last move.
Mover == move.before[move.from + 1]

\* The new projected wait of the k-th customer the last move skipped (the
\* nearest first): its projected wait at pass start plus the moving
\* customer's expected service duration.
NewWaitOfSkipped(k) ==
    EstimatesBeforeMove[move.from + 1 - k][2]
        + get_estimated_service_time(repo, Mover)

\* The skips of the last move that take the skipped customer's new
\* projected wait above non_p_threshold.
SkipsAboveNonPThreshold ==
    {k \in 1..(move.from - move.to) :
        NewWaitOfSkipped(k) > call.args.non_p_threshold}

\* C23: in one evaluation of a priority customer, at most max_jumps_p of
\* the customers it skips get a new projected wait above non_p_threshold;
\* none does when max_jumps_p = 0.
C23_ForcedSkipsWithinBudget ==
    (InCall /\ move.moved)
    => /\ Cardinality(SkipsAboveNonPThreshold) <= call.args.max_jumps_p
       /\ call.args.max_jumps_p = 0 => SkipsAboveNonPThreshold = {}

\* A move skipped two customers with a budget of one: one of them went
\* above non_p_threshold, the other did not.
C23_Witness ==
    /\ InCall /\ move.moved
    /\ call.args.max_jumps_p = 1
    /\ move.from - move.to = 2
    /\ Cardinality(SkipsAboveNonPThreshold) = 1

\* The moving customer's running projected wait after the first k skips of
\* the last move: its projected wait at pass start minus the expected
\* service durations of the k customers nearest ahead of it.
RunningWaitAfter(k) ==
    EstimatesBeforeMove[move.from + 1][2]
        - SumSeq([j \in 1..k |->
                    get_estimated_service_time(repo,
                                               move.before[move.from + 1 - j])])

\* C24: in every move that skips n >= 2 customers, the moving customer's
\* running projected wait after each of the first n-1 skips is at least
\* p_threshold (the walk stops at the first skip that takes it below).
C24_WalkStopsBelowPThreshold ==
    (InCall /\ move.moved)
    => \A k \in 1..(move.from - move.to - 1) :
          RunningWaitAfter(k) >= call.args.p_threshold

\* A move skipped two customers: the first skip left the running wait at
\* or above p_threshold, the second took it below.
C24_Witness ==
    /\ InCall /\ move.moved
    /\ move.from - move.to = 2
    /\ RunningWaitAfter(1) >= call.args.p_threshold
    /\ RunningWaitAfter(2) < call.args.p_threshold

---------------------------------------------------------------------------
(* The passes of update_queue_improved, checked under Spec.                *)

\* The estimates of the queue as it was when the call was entered.
EstimatesAtCallStart ==
    estimate_total_times_in_line(call.args.service_points, call.pre, repo,
                                 call.args.current_time).value

\* C25: a pass makes at most one move (the queue after a pass is the queue
\* before it with at most one customer repositioned, and a call has made
\* no more moves than passes), and every move is decided on projected
\* waits computed from the queue as it stood at the start of the pass that
\* made it, after all earlier moves: the moving customer's wait and the
\* waits of the customers it skips.
C25_OneMovePerPassOnFreshEstimates ==
    InCall
    => /\ call.moves <= call.passes
       /\ (call.passes >= 1 /\ ~move.moved) => queue = move.before
       /\ move.moved
          => /\ IdsOf(queue)
                   = IdsOf(InsertAt(RemoveAt(move.before, move.from + 1),
                                    move.to, Mover))
             /\ move.wait = EstimatesBeforeMove[move.from + 1][2]
             /\ \A k \in 1..Len(move.skips) :
                   move.skips[k].original_wait
                       = EstimatesBeforeMove[move.from + 1 - k][2]

\* The second move of a call skipped a customer whose projected wait had
\* changed with the first move.
C25_Witness ==
    /\ InCall /\ move.moved
    /\ call.moves = 2
    /\ EstimatesBeforeMove[move.from][2] # EstimatesAtCallStart[move.from][2]

\* The priority customers that stood behind position i (1-based) of the
\* queue before the call and stand ahead of that customer now.
Overtakers(i) ==
    {k \in (i + 1)..Len(call.pre) :
        /\ IsPriority(call.pre[k], call.args.priority_tickets)
        /\ PositionOf(queue, call.pre[k]) < PositionOf(queue, call.pre[i])}

\* C26: during and after a call of update_queue_improved the skip counter
\* of every non-priority customer is its counter before the call plus the
\* number of priority customers that were behind it before the call and
\* are ahead of it now, and the counter of every priority customer is as
\* it was before the call.
C26_JumpsCountOvertakes ==
    InCall
    => \A i \in 1..Len(call.pre) :
          LET now == queue[PositionOf(queue, call.pre[i])]
          IN IF IsPriority(call.pre[i], call.args.priority_tickets)
             THEN now.jumps = call.pre[i].jumps
             ELSE now.jumps = call.pre[i].jumps + Cardinality(Overtakers(i))

\* A call has returned; two priority customers overtook one non-priority
\* customer, whose counter rose by two.
C26_Witness ==
    /\ call.status = "returned"
    /\ \E i \in 1..Len(call.pre) :
          /\ ~IsPriority(call.pre[i], call.args.priority_tickets)
          /\ Cardinality(Overtakers(i)) = 2
          /\ queue[PositionOf(queue, call.pre[i])].jumps
                = call.pre[i].jumps + 2

\* C27: a call of update_queue_improved with jumps_limit <= 0 makes no
\* move, whatever the queue and the other arguments: it returns after its
\* first pass with the queue order and every skip counter as they were.
C27_NoCeilingNoMove ==
    (InCall /\ call.args.jumps_limit <= 0)
    => /\ queue = call.pre
       /\ call.moves = 0
       /\ call.passes >= 1 => (call.status = "returned" /\ call.passes = 1)

\* A call with jumps_limit 0 and a forced-skip budget has returned on a
\* queue whose priority customer stands right behind a non-priority one.
C27_Witness ==
    /\ call.status = "returned"
    /\ call.args.jumps_limit = 0
    /\ call.args.max_jumps_p >= 1
    /\ \E i \in 1..(Len(queue) - 1) :
          /\ ~IsPriority(queue[i], call.args.priority_tickets)
          /\ IsPriority(queue[i + 1], call.args.priority_tickets)

---------------------------------------------------------------------------
(* The windows and the clock of the simulated day, checked under SpecSim.  *)

\* The service time of the table's first row for the ticket type.
DurationOf(ticket_type) ==
    repo[CHOOSE k \in 1..Len(repo) :
            /\ repo[k].ticket_type = ticket_type
            /\ \A j \in 1..(k - 1) : repo[j].ticket_type # ticket_type]
        .service_time

\* The windows that are available now and busy in the next state.
NewlyBusy ==
    {i \in 1..Len(service_windows) :
        service_windows[i].is_available /\ ~service_windows'[i].is_available}

\* C28: assign_customers_to_windows gives the customers at the head of the
\* queue, in order, to the available windows, in order, and removes them
\* from the queue; each such window's completion time is the current time
\* plus the service time of its customer's ticket type; a busy window is
\* left as it is; and a busy window's completion time is never earlier
\* than the time its customer's service started.
C28_AssignmentSetsCompletionTime ==
    /\ [][ (pc = "assign_customers_to_windows" /\ pc' = "optimize_queue")
           => /\ queue' = SubSeq(queue, Cardinality(NewlyBusy) + 1, Len(queue))
              /\ \A i \in NewlyBusy :
                    LET customer == queue[Cardinality({j \in NewlyBusy : j <= i})]
                    IN /\ service_windows'[i].current_customer = <<customer>>
                       /\ service_windows'[i].service_end_time
                            = <<clock + DurationOf(customer.ticket_type)>>
              /\ \A i \in 1..Len(service_windows) :
                    ~service_windows[i].is_available
                        => service_windows'[i] = service_windows[i]
         ]_vars
    /\ [](\A i \in 1..Len(service_windows) :
            ~service_windows[i].is_available
                => LET record == RecordOf(simulation_state,
                                          service_windows[i].current_customer[1])
                   IN /\ record.service_start_time # <<>>
                      /\ service_windows[i].service_end_time[1]
                            >= record.service_start_time[1])

\* One window has just been given a customer while the other is still busy
\* with a customer whose service started earlier.
C28_Witness ==
    /\ pc = "optimize_queue"
    /\ \E i \in 1..Len(service_windows) : \E j \in 1..Len(service_windows) :
          /\ ~service_windows[i].is_available
          /\ ~service_windows[j].is_available
          /\ RecordOf(simulation_state, service_windows[i].current_customer[1])
                .service_start_time = <<clock>>
          /\ RecordOf(simulation_state, service_windows[j].current_customer[1])
                .service_start_time[1] < clock

\* C29: optimize_queue is called (and with it, when more than one customer
\* waits, update_queue_improved) only in an iteration of the main loop at
\* least optimization_interval_minutes after the last reset of
\* last_optimization_time, and none before opening + the interval; a call
\* that returns resets last_optimization_time to the current time, so two
\* calls one after the other are at least one interval apart.
C29_OptimizationAtLeastOneIntervalApart ==
    [][ (/\ pc = "optimize_queue"
         /\ \/ pc' = "raised"
            \/ last_optimization_time' # last_optimization_time)
        => /\ clock - last_optimization_time >= OptimizationIntervalMinutes
           /\ clock >= opening_time + OptimizationIntervalMinutes
           /\ pc' # "raised" => last_optimization_time' = clock
      ]_vars

\* optimize_queue has just been called for the second time in the day: the
\* first call was made when the customer of 12 minutes after opening
\* arrived.
C29_Witness ==
    /\ pc = "get_next_event_time"
    /\ last_optimization_time = clock
    /\ clock > opening_time + 2 * OptimizationIntervalMinutes
    /\ \E i \in 1..Len(Records) :
          /\ Records[i].arrival_time = opening_time + 12
          /\ Records[i].service_start_time = <<opening_time + 12>>

\* The times of the events to come: the arrival times of all pending
\* customers and the completion times of the busy windows.
EventTimes ==
    {pending_arrivals[i].arrival_time : i \in 1..Len(pending_arrivals)}
        \cup BusyEndTimes

InMainLoop ==
    pc \in {"process_arrivals", "process_service_completions",
            "assign_customers_to_windows", "optimize_queue",
            "get_next_event_time"}

\* C30: at the end of an iteration of the main loop the clock moves
\* forward to the earliest of the pending arrivals and the busy windows'
\* completion times when that is before closing time, and otherwise (no
\* event, or the earliest at or after closing) to closing time, where the
\* loop ends.  So, in the main loop, the clock is before closing time and
\* no pending arrival and no busy window's completion lies in the past; no
\* service starts at or after closing time; and a service completed is
\* recorded at its completion time.
C30_ClockJumpsToNextEvent ==
    /\ [][ pc = "get_next_event_time"
           => IF \E t \in EventTimes : t < closing_time
              THEN /\ clock' \in EventTimes
                   /\ \A t \in EventTimes : clock' <= t
                   /\ clock' > clock
                   /\ pc' = "process_arrivals"
              ELSE /\ clock' = closing_time
                   /\ pc' = "handle_closing_time"
         ]_vars
    /\ [](InMainLoop
            => /\ clock < closing_time
               /\ \A t \in EventTimes : t >= clock)
    /\ [](pc # "constructed"
            => \A i \in 1..Len(Records) :
                  /\ Records[i].service_start_time # <<>>
                        => Records[i].service_start_time[1] < closing_time
                  /\ Records[i].was_served
                        => Records[i].service_end_time
                             = <<Records[i].service_start_time[1]
                                   + DurationOf(Records[i].ticket_type)>>)

\* The main loop has ended with a service in progress that ends after
\* closing time, after the clock had stopped at an earlier completion.
C30_Witness ==
    /\ pc = "handle_closing_time"
    /\ clock = closing_time
    /\ \E t \in BusyEndTimes : t > closing_time
    /\ \E i \in 1..Len(Records) :
          /\ Records[i].was_served
          /\ Records[i].service_end_time[1] < closing_time

---------------------------------------------------------------------------
(* The queue across a call of update_queue_improved, checked under Spec.   *)

\* The positions of q that hold the customer c.
PlacesOf(q, c) == {j \in 1..Len(q) : q[j].customer_id = c.customer_id}

\* C31: during and after a call of update_queue_improved the queue holds
\* exactly the customers it held before the call, each once, with the
\* arrival time and ticket type they had: the length is the same and no
\* customer is lost, duplicated or added.
C31_CallOnlyPermutesQueue ==
    InCall
    => /\ Len(queue) = Len(call.pre)
       /\ \A i \in 1..Len(call.pre) :
             /\ Cardinality(PlacesOf(queue, call.pre[i])) = 1
             /\ \A j \in PlacesOf(queue, call.pre[i]) :
                   /\ queue[j].arrival_time = call.pre[i].arrival_time
                   /\ queue[j].ticket_type = call.pre[i].ticket_type
       /\ \A j \in 1..Len(queue) :
             Cardinality(PlacesOf(call.pre, queue[j])) = 1

\* A call has returned after two moves on three customers, none of which
\* stands where it stood.
C31_Witness ==
    /\ call.status = "returned"
    /\ call.moves = 2
    /\ Len(queue) = 3
    /\ \A j \in 1..Len(queue) :
          queue[j].customer_id # call.pre[j].customer_id

\* The position (1-based) of the customer c in q.
PlaceOf(q, c) == CHOOSE j \in 1..Len(q) : q[j].customer_id = c.customer_id

\* C32: during and after a call of update_queue_improved two non-priority
\* customers stand in the order they stood in before the call: when X was
\* ahead of Y before the call, X is ahead of Y.
C32_NonPriorityOrderKept ==
    InCall
    => \A x \in 1..Len(call.pre) : \A y \in 1..Len(call.pre) :
          ( /\ x < y
            /\ ~IsPriority(call.pre[x], call.args.priority_tickets)
            /\ ~IsPriority(call.pre[y], call.args.priority_tickets)
            /\ Has(queue, call.pre[x])
            /\ Has(queue, call.pre[y]) )
          => PlaceOf(queue, call.pre[x]) < PlaceOf(queue, call.pre[y])

\* A call has returned after it took a priority customer from the third
\* place ahead of two non-priority customers.
C32_Witness ==
    /\ call.status = "returned"
    /\ Len(call.pre) = 3
    /\ ~IsPriority(call.pre[1], call.args.priority_tickets)
    /\ ~IsPriority(call.pre[2], call.args.priority_tickets)
    /\ IsPriority(call.pre[3], call.args.priority_tickets)
    /\ queue[1].customer_id = call.pre[3].customer_id
    /\ queue[2].customer_id = call.pre[1].customer_id

\* The customer at position i (1-based) has a priority ticket and its
\* recomputed projected wait exceeds p_threshold.
OverduePriority(i) ==
    /\ IsPriority(queue[i], call.args.priority_tickets)
    /\ RecomputedWaits[i][2] > call.args.p_threshold

\* C33: when update_queue_improved has returned, every priority customer
\* whose recomputed projected wait exceeds p_threshold is at the head of
\* the queue, or the customer directly ahead of it has a priority ticket,
\* or has a skip counter of at least jumps_limit, or would wait longer than
\* non_p_threshold while max_jumps_p = 0.
C33_NoAllowedSkipLeftAtReturn ==
    call.status = "returned"
    => \A i \in 1..Len(queue) : OverduePriority(i) => Unmovable(i)

\* A call with a special-jump budget has returned after a move and left an
\* overdue priority customer behind a non-priority customer at the limit.
C33_Witness ==
    /\ call.status = "returned"
    /\ call.moves >= 1
    /\ call.args.max_jumps_p > 0
    /\ \E i \in 2..Len(queue) :
          /\ OverduePriority(i)
          /\ ~IsPriority(queue[i - 1], call.args.priority_tickets)
          /\ queue[i - 1].jumps >= call.args.jumps_limit

---------------------------------------------------------------------------
(* A move and the estimates around it, checked under SpecMove.             *)

\* The places (1-based) of the queue a move leaves alone: those ahead of
\* the target index and those behind the moved customer's original place.
PlacesOutsideMove == (1..move.to) \cup ((move.from + 2)..Len(queue))

\* C34: after a move, every customer ahead of the target index and every
\* customer behind the moved customer's original position has the projected
\* total wait the estimator gave it before the move, for any number of
\* service points.
C34_MoveChangesWaitsOnlyInsideSegment ==
    (call.status = "running" /\ move.moved)
    => \A i \in PlacesOutsideMove :
          /\ queue[i].customer_id = move.before[i].customer_id
          /\ RecomputedWaits[i][2] = EstimatesBeforeMove[i][2]

\* The place (1-based) in the queue before the move of the k-th customer
\* the last move skipped (the nearest first).
PlaceOfSkipped(k) == move.from + 1 - k

\* C35: after a move, the projected total wait the estimator recomputes
\* for each skipped customer is at most the value the walk used for it when
\* it allowed the skip, which is its projected wait before the move plus
\* the moving customer's expected service duration, for any number of
\* service points.
C35_SkipEstimateIsConservative ==
    (call.status = "running" /\ move.moved)
    => \A k \in 1..Len(move.skips) :
          /\ move.skips[k].customer_id
                = move.before[PlaceOfSkipped(k)].customer_id
          /\ move.skips[k].new_wait = NewWaitOfSkipped(k)
          /\ RecomputedWaits[PlaceOf(queue, move.before[PlaceOfSkipped(k)])][2]
                <= move.skips[k].new_wait

\* With two service points a move has skipped one customer, and the
\* estimator now gives that customer a wait greater than before the move
\* and less than the value the walk used for it.
C35_Witness ==
    /\ call.status = "running" /\ move.moved
    /\ call.args.service_points = 2
    /\ RecomputedWaits[PlaceOf(queue, move.before[PlaceOfSkipped(1)])][2]
          > move.skips[1].original_wait
    /\ Len(move.skips) = 1
    /\ RecomputedWaits[PlaceOf(queue, move.before[PlaceOfSkipped(1)])][2]
          < move.skips[1].new_wait

---------------------------------------------------------------------------
(* Completions, idle windows, the clock and the order of service in the    *)
(* simulated day, checked under SpecSim.                                   *)

\* The records (by position) of the customers a step records as served.
NewlyServed ==
    {i \in 1..Len(simulation_state'.customer_records) :
        /\ simulation_state'.customer_records[i].was_served
        /\ i \in 1..Len(Records) => ~Records[i].was_served}

\* C36: a completion is recorded at the current time, which is the
\* window's completion time: the start of the service plus the service time
\* of the customer's ticket type; no busy window's completion time is ever
\* earlier than the current time, before closing and after it; so every
\* record of a served customer has service end = service start + service
\* time.
C36_CompletionRecordedAtCompletionTime ==
    /\ [][ \A i \in NewlyServed :
             LET record == simulation_state'.customer_records[i]
             IN /\ record.service_end_time = <<clock>>
                /\ record.service_start_time # <<>>
                /\ clock = record.service_start_time[1]
                             + DurationOf(record.ticket_type)
                /\ \E w \in 1..Len(service_windows) :
                      /\ service_windows[w].current_customer # <<>>
                      /\ service_windows[w].current_customer[1].customer_id
                            = record.customer_id
                      /\ service_windows[w].service_end_time = <<clock>>
         ]_vars
    /\ [](\A t \in BusyEndTimes : t >= clock)
    /\ [](\A i \in ServedRecords :
            Records[i].service_end_time
                = <<Records[i].service_start_time[1]
                      + DurationOf(Records[i].ticket_type)>>)

\* The day has returned with one customer whose service ended before
\* closing and one whose service ended in the hour after closing.
C36_Witness ==
    /\ pc = "returned"
    /\ \E i \in ServedRecords : Records[i].service_end_time[1] < closing_time
    /\ \E i \in ServedRecords : Records[i].service_end_time[1] > closing_time

\* The windows that are available.
IdleWindows ==
    {i \in 1..Len(service_windows) : service_windows[i].is_available}

\* C37: at the end of the assignment step of every iteration of the main
\* loop, and until the clock moves, the queue is empty or every window is
\* busy: the step starts the service, at the current time, of as many
\* customers from the head of the queue as there are idle windows, so a
\* window freed at time t takes the head of the queue at t and a customer
\* who arrives at t to an idle window starts service at t.
C37_WorkConservingBeforeClosing ==
    /\ [][ (pc = "assign_customers_to_windows" /\ pc' = "optimize_queue")
           => /\ queue' = <<>> \/ \A i \in 1..Len(service_windows') :
                                      ~service_windows'[i].is_available
              /\ \A k \in 1..Len(queue) :
                    k <= Cardinality(IdleWindows)
                    => RecordOf(simulation_state', queue[k]).service_start_time
                          = <<clock>>
         ]_vars
    /\ [](pc \in {"optimize_queue", "get_next_event_time"}
            => queue = <<>> \/ IdleWindows = {})

\* The single window has just completed a service and has been given the
\* customer at the head of the queue, who arrived earlier, at the same
\* time; another customer still waits.
C37_Witness ==
    /\ pc = "optimize_queue"
    /\ Len(service_windows) = 1
    /\ queue # <<>>
    /\ \E i \in ServedRecords : Records[i].service_end_time = <<clock>>
    /\ \E i \in 1..Len(Records) :
          /\ Records[i].service_start_time = <<clock>>
          /\ Records[i].arrival_time < clock

\* C38: simulated time never decreases, it is later at the start of every
\* iteration of the main loop than at the start of the iteration before,
\* and simulate_day returns.
C38_ClockAdvancesAndDayReturns ==
    /\ [][pc # "constructed" => clock' >= clock]_vars
    /\ [][(pc = "get_next_event_time" /\ pc' = "process_arrivals")
             => clock' > clock]_vars
    /\ <>(pc = "returned")

\* C39: in the simulated day, in which update_queue_improved never
\* reorders the queue, customers begin service in the order in which they
\* were admitted (the order of the records), which is the order of their
\* arrival times: of two customers A admitted before B, B has started
\* service only if A has, and not earlier than A; and when A has left at
\* closing B has not been served.
C39_ServiceStartsInArrivalOrder ==
    \A a \in 1..Len(Records) : \A b \in 1..Len(Records) :
        a < b
        => /\ Records[a].arrival_time <= Records[b].arrival_time
           /\ Records[b].service_start_time # <<>>
                => /\ Records[a].service_start_time # <<>>
                   /\ Records[a].service_start_time[1]
                         <= Records[b].service_start_time[1]
           /\ Records[a].left_at_closing
                => /\ ~Records[b].was_served
                   /\ Records[b].service_start_time = <<>>

\* The day has returned, with optimize_queue never called on more than one
\* waiting customer: two customers who arrived together were served one
\* after the other, and a third left at closing.
C39_Witness ==
    /\ pc = "returned"
    /\ Len(Records) = 3
    /\ Records[1].arrival_time = Records[2].arrival_time
    /\ Records[1].was_served /\ Records[2].was_served
    /\ Records[1].service_start_time[1] < Records[2].service_start_time[1]
    /\ Records[3].left_at_closing

=============================================================================
